---- MODULE Spec2Model ----
(***************************************************************************)
(* The request dispatch-and-cache pipeline of the Algolia search proxy     *)
(* worker (src/unnamed/part_002, the revision the test-suite               *)
(* src/src/index.test.ts exercises): classification, body validation,      *)
(* POST-to-cache-key synthesis, cache lookup, ordered host failover, the   *)
(* background cache put and the CORS stamping of the returned response.    *)
(*                                                                         *)
(* Strings the code parses or matches character by character (TTL          *)
(* configuration values, queries, the host labels and the port of an       *)
(* origin) are sequences of UTF-16 code units. An absent value (null /     *)
(* undefined) is the one-element sequence Undefined, which no sequence of  *)
(* code units equals.                                                      *)
(***************************************************************************)
EXTENDS Integers, Sequences, FiniteSets, TLC

VARIABLES
    env,      \* the Env bindings handed to fetch(): the two TTL values
    cache,    \* caches.default: a map from synthesized key to stored entry
    h,        \* one record per handler invocation slot (locals of fetch())
    tasks,    \* promises registered with ctx.waitUntil: the pending cache.put calls
    nreq      \* number of requests received so far

vars == <<env, cache, h, tasks, nreq>>

----------------------------------------------------------------------------
(* Bounds of the model. *)

MaxRequests == 2

Procs == {"p1", "p2"}

----------------------------------------------------------------------------
(* Values shared by the definitions below. *)

\* null / undefined where the value would be a plain string
Null == "<null>"

\* undefined where the value would be a sequence of UTF-16 code units
Undefined == << -1 >>

----------------------------------------------------------------------------
(* Configuration and constants. *)

SSR_SENTINEL == "ASDf928gh2efhajsdf!!"

\* The host labels of the origins below, each the sequence of its UTF-16 code
\* units.

\* "www"
LabelWww == <<119, 119, 119>>

\* "shop"
LabelShop == <<115, 104, 111, 112>>

\* "avocadostore"
LabelAvocadostore == <<97, 118, 111, 99, 97, 100, 111, 115, 116, 111, 114, 101>>

\* "de"
LabelDe == <<100, 101>>

\* "dev"
LabelDev == <<100, 101, 118>>

\* "dash"
LabelDash == <<100, 97, 115, 104>>

\* "cloudflare"
LabelCloudflare == <<99, 108, 111, 117, 100, 102, 108, 97, 114, 101>>

\* "com"
LabelCom == <<99, 111, 109>>

\* "evil"
LabelEvil == <<101, 118, 105, 108>>

\* "localhost"
LabelLocalhost == <<108, 111, 99, 97, 108, 104, 111, 115, 116>>

\* "test"
LabelTest == <<116, 101, 115, 116>>

\* "staging"
LabelStaging == <<115, 116, 97, 103, 105, 110, 103>>

\* "a-1"
LabelHyphenDigit == <<97, 45, 49>>

\* "0"
LabelZero == <<48>>

\* "WWW"
LabelUpperWww == <<87, 87, 87>>

\* "a_b"
LabelUnderscore == <<97, 95, 98>>

\* "*"
LabelStar == <<42>>

\* An origin string scheme://label.label...[:port] is the record of its parts,
\* each label and the port a sequence of UTF-16 code units;
\* a string with no such shape (the "*" the handler substitutes for a missing
\* Origin header) has the empty scheme and itself as only label.
OriginOf(scheme, labels, port) == [scheme |-> scheme, labels |-> labels, port |-> port]

\* "https://www.avocadostore.de"
CANONICAL_ORIGIN == OriginOf("https", <<LabelWww, LabelAvocadostore, LabelDe>>, Undefined)

\* "https://dash.cloudflare.com"
CLOUDFLARE_DASHBOARD == OriginOf("https", <<LabelDash, LabelCloudflare, LabelCom>>, Undefined)

\* "*"
STAR_ORIGIN == OriginOf("", <<LabelStar>>, Undefined)

\* request.headers.get("Origin") === null
NO_ORIGIN == OriginOf(Null, <<>>, Undefined)

ALLOW_METHODS == "GET, POST, OPTIONS"

ALLOW_HEADERS == "Content-Type, x-algolia-agent, x-algolia-api-key, x-algolia-application-id, x-as-cache-key, x-ssr-request"

PREFLIGHT_MAX_AGE == "86400"

SEARCH_PATH == "/1/indexes/*/queries"

EVENTS_PATH == "/1/events"

INSIGHTS_HOST == "insights.algolia.io"

\* env.ALGOLIA_APPLICATION_ID
APPLICATION_ID == "testtest"

\* the list with the fallback hosts ahead of the DSN host
getHostsFallbackFirst(applicationId) ==
    << applicationId \o "-1.algolianet.com",
       applicationId \o "-2.algolianet.com",
       applicationId \o "-3.algolianet.com",
       applicationId \o "-dsn.algolia.net" >>

getHosts(applicationId) ==
    << applicationId \o "-dsn.algolia.net",
       applicationId \o "-1.algolianet.com",
       applicationId \o "-2.algolianet.com",
       applicationId \o "-3.algolianet.com" >>

\* env.ALGOLIA_API_KEY, a value other than the application id
API_KEY == "test-api-key"

SEARCH_AGENT == "Algolia%20for%20JavaScript%20(5.8.1)%3B%20Lite%20(5.8.1)%3B%20Browser%3B%20autocomplete-core%20(1.17.4)%3B%20autocomplete-js%20(1.17.4)"

INSIGHTS_AGENT == "insights-js%20(2.17.3)%3B%20insights-js-browser-umd%20(2.17.3)%3B%20insights-middleware%3B%20insights-plugin"

\* the fallbacks of the two TTL settings: `env.CACHE_TTL_SSR || "600"` then
\* `|| 600`, and `env.CACHE_TTL_CLIENT || "0"` then `|| 0`
DefaultTtlSsrText == <<54, 48, 48>>

DefaultTtlSsr == 600

DefaultTtlClientText == <<48>>

DefaultTtlClient == 0

MinQueryLength == 3

QueryLogLimit == 100

StatusNoContent == 204

StatusBadRequest == 400

StatusBadGateway == 502

\* Response.ok: the status is in the range 200-299
IsOk(status) == status >= 200 /\ status <= 299

----------------------------------------------------------------------------
(* URLSearchParams: an ordered list of <<name, value>> pairs. *)

HasParam(params, name) == \E i \in 1..Len(params) : params[i][1] = name

FirstIndex(params, name) ==
    CHOOSE i \in 1..Len(params) :
        /\ params[i][1] = name
        /\ \A j \in 1..(i - 1) : params[j][1] # name

\* URLSearchParams.get: the first value under the name, or null
ParamGet(params, name) ==
    IF HasParam(params, name) THEN params[FirstIndex(params, name)][2] ELSE Null

\* URLSearchParams.delete: drops every pair under the name
ParamDelete(params, name) ==
    LET keep(p) == p[1] # name IN SelectSeq(params, keep)

\* URLSearchParams.set: overwrites the first pair under the name and drops the
\* others; appends when there is none
ParamSet(params, name, value) ==
    IF HasParam(params, name)
    THEN LET f == FirstIndex(params, name)
         IN  SubSeq(params, 1, f - 1) \o << <<name, value>> >>
                 \o ParamDelete(SubSeq(params, f + 1, Len(params)), name)
    ELSE Append(params, <<name, value>>)

----------------------------------------------------------------------------
(* parseInt(string, 10) and the `||` fallbacks around it. *)

\* A string that is scanned character by character is the sequence of its
\* UTF-16 code units.

\* "0" .. "9"
Digits == <<48, 49, 50, 51, 52, 53, 54, 55, 56, 57>>

IsDigit(c) == \E i \in 1..Len(Digits) : Digits[i] = c

DigitValue(c) == (CHOOSE i \in 1..Len(Digits) : Digits[i] = c) - 1

\* StrWhiteSpaceChar: WhiteSpace (TAB, VT, FF, U+FEFF and the space separators
\* of Unicode) and LineTerminator (LF, CR, U+2028, U+2029)
IsWhitespace(c) ==
    c \in {9, 11, 12, 32, 160, 5760, 8239, 8287, 12288, 65279}
             \cup (8192..8202) \cup {10, 13, 8232, 8233}

RECURSIVE SkipWhitespace(_)
SkipWhitespace(s) ==
    IF Len(s) > 0 /\ IsWhitespace(Head(s)) THEN SkipWhitespace(Tail(s)) ELSE s

\* value of the longest prefix of decimal digits, accumulated left to right
RECURSIVE DigitPrefix(_, _)
DigitPrefix(s, acc) ==
    IF Len(s) > 0 /\ IsDigit(Head(s))
    THEN DigitPrefix(Tail(s), acc * 10 + DigitValue(Head(s)))
    ELSE acc

\* parseInt(s, 10): [nan |-> TRUE] when no digit follows the optional sign
parseInt(s) ==
    LET t        == SkipWhitespace(s)
        negative == Len(t) > 0 /\ Head(t) = 45
        signed   == Len(t) > 0 /\ Head(t) \in {45, 43}
        u        == IF signed THEN Tail(t) ELSE t
    IN  IF Len(u) > 0 /\ IsDigit(Head(u))
        THEN [nan |-> FALSE,
              val |-> IF negative THEN 0 - DigitPrefix(u, 0) ELSE DigitPrefix(u, 0)]
        ELSE [nan |-> TRUE, val |-> 0]

\* `str || fallback`: undefined and the empty string are falsy
StrOr(s, fallback) == IF s = Undefined \/ s = <<>> THEN fallback ELSE s

\* `num || fallback`: NaN and 0 are falsy
NumOr(n, fallback) == IF n.nan \/ n.val = 0 THEN fallback ELSE n.val

----------------------------------------------------------------------------
(* Origin policy. *)

\* the character class [a-z0-9-]
IsLabelChar(c) == c \in (97..122) \cup (48..57) \cup {45}

\* [a-z0-9-]+ over a whole label
IsLabel(label) ==
    /\ Len(label) > 0
    /\ \A j \in 1..Len(label) : IsLabelChar(label[j])

\* ALLOWED_ORIGIN_PATTERN: ^https:\/\/([a-z0-9-]+\.)*avocadostore\.(de|dev)$
MatchesAllowedOriginPattern(origin) ==
    LET n == Len(origin.labels)
    IN  /\ origin.scheme = "https"
        /\ origin.port = Undefined
        /\ n >= 2
        /\ origin.labels[n - 1] = LabelAvocadostore
        /\ origin.labels[n] \in {LabelDe, LabelDev}
        /\ \A i \in 1..(n - 2) : IsLabel(origin.labels[i])

\* LOCALHOST_PATTERN: ^http:\/\/localhost(:\d+)?$
MatchesLocalhostPattern(origin) ==
    /\ origin.scheme = "http"
    /\ origin.labels = <<LabelLocalhost>>
    /\ \/ origin.port = Undefined
       \/ /\ Len(origin.port) > 0
          /\ \A i \in 1..Len(origin.port) : IsDigit(origin.port[i])

isOriginAllowed(origin) ==
    \/ MatchesAllowedOriginPattern(origin)
    \/ MatchesLocalhostPattern(origin)
    \/ origin = CLOUDFLARE_DASHBOARD

\* `requestOrigin || "*"`
OriginOrStar(requestOrigin) ==
    IF requestOrigin = NO_ORIGIN \/ requestOrigin = OriginOf("", <<>>, Undefined)
    THEN STAR_ORIGIN
    ELSE requestOrigin

\* the flag set by the mere presence of the header
IsSSRRequestIfPresent(ssrHeaderValue) == ssrHeaderValue # Null

\* x-ssr-request === "ASDf928gh2efhajsdf!!"
IsSSRRequest(ssrHeaderValue) == ssrHeaderValue = SSR_SENTINEL

----------------------------------------------------------------------------
(* Responses.  Headers the pipeline reads or writes are fields; NoHeader    *)
(* marks a header the response does not carry.                              *)

NoHeader == Null

NoBody == [text |-> Null, error |-> Null, errorType |-> Null, details |-> <<>>]

TextBody(text) == [NoBody EXCEPT !.text = text]

ErrorBody(error, errorType, details) ==
    [text |-> Null, error |-> error, errorType |-> errorType, details |-> details]

NewResponse(status, body, contentType) ==
    [status       |-> status,
     body         |-> body,
     contentType  |-> contentType,
     cacheControl |-> <<>>,
     vary         |-> NoHeader,
     allowOrigin  |-> <<>>,
     allowMethods |-> NoHeader,
     allowHeaders |-> NoHeader,
     maxAge       |-> NoHeader]

NoResponse == NewResponse(0, NoBody, NoHeader)

handleOptions(ctx) ==
    LET base == [NewResponse(StatusNoContent, NoBody, NoHeader) EXCEPT
                    !.allowMethods = ALLOW_METHODS,
                    !.allowHeaders = ALLOW_HEADERS,
                    !.maxAge = PREFLIGHT_MAX_AGE]
    IN  IF ctx.isSSRRequest
        THEN [base EXCEPT !.allowOrigin = <<CANONICAL_ORIGIN>>]
        ELSE IF isOriginAllowed(ctx.origin)
             THEN [base EXCEPT !.allowOrigin = <<ctx.origin>>, !.vary = "Origin"]
             ELSE [base EXCEPT !.allowOrigin = <<CANONICAL_ORIGIN>>]

\* the stamping done on `new Response(null, ...)`: the body is lost
addCorsHeadersDroppingBody(response, origin, isSSRRequest) ==
    [response EXCEPT !.body = NoBody,
                     !.allowOrigin = <<CANONICAL_ORIGIN>>,
                     !.allowMethods = ALLOW_METHODS,
                     !.allowHeaders = ALLOW_HEADERS,
                     !.maxAge = PREFLIGHT_MAX_AGE]

addCorsHeaders(response, origin, isSSRRequest) ==
    LET stamped ==
            IF isSSRRequest \/ ~isOriginAllowed(origin)
            THEN [response EXCEPT !.allowOrigin = <<CANONICAL_ORIGIN>>]
            ELSE [response EXCEPT !.allowOrigin = <<origin>>, !.vary = "Origin"]
    IN  [stamped EXCEPT !.allowMethods = ALLOW_METHODS,
                        !.allowHeaders = ALLOW_HEADERS,
                        !.maxAge = PREFLIGHT_MAX_AGE]

----------------------------------------------------------------------------
(* Query validation.  A query is its sequence of UTF-16 code units. *)

\* the code points listed after \xFF in ALLOWED_QUERY_REGEX
ListedCodeUnits ==
    {34, 38, 39, 172, 176, 198, 207, 209, 223, 230, 238, 239, 241, 256, 257, 268,
     269, 274, 275, 281, 305, 322, 332, 333, 352, 353, 362, 363, 477, 720, 1025,
     1105, 7510, 7512, 7838, 8210, 8211, 8218, 8222, 8226, 8230, 8249, 8250, 8364,
     8482, 8709, 8730, 8756, 8960, 9125, 9415, 9733, 9829}

\* one character of the class [\x20-\x7E\xA0-\xFF...]
InAllowedClass(c) ==
    \/ c >= 32 /\ c <= 126
    \/ c >= 160 /\ c <= 255
    \/ c \in ListedCodeUnits

\* ALLOWED_QUERY_REGEX.test(query): ^[class]+$
MatchesAllowedQueryRegex(query) ==
    /\ Len(query) > 0
    /\ \A i \in 1..Len(query) : InAllowedClass(query[i])

\* a query value that is truthy: defined and not the empty string
Truthy(query) == query # Undefined /\ query # <<>>

\* A decoded JSON object is the list of its <<name, value>> members, each name
\* once; a value is a sequence of UTF-16 code units.

\* object[name]: undefined when the object has no such member
Member(object, name) ==
    IF \E i \in 1..Len(object) : object[i][1] = name
    THEN object[CHOOSE i \in 1..Len(object) : object[i][1] = name][2]
    ELSE Undefined

\* String.prototype.substring(0, n)
Substring0(str, n) == SubSeq(str, 1, IF Len(str) < n THEN Len(str) ELSE n)

\* requests.find((r) => r.query)?.query
RECURSIVE FirstTruthyQuery(_)
FirstTruthyQuery(requests) ==
    IF requests = <<>> THEN Undefined
    ELSE IF Truthy(Member(Head(requests), "query")) THEN Member(Head(requests), "query")
    ELSE FirstTruthyQuery(Tail(requests))

\* the for-loop of isInvalidQuery over the items left, hasLongQuery so far
RECURSIVE ScanQueries(_, _, _)
ScanQueries(rest, hasLongQuery, all) ==
    IF rest = <<>>
    THEN IF hasLongQuery
         THEN [invalid |-> FALSE, errorType |-> Null, query |-> Undefined]
         ELSE [invalid |-> TRUE, errorType |-> "too_short",
               query |-> IF FirstTruthyQuery(all) = Undefined THEN Undefined
                         ELSE Substring0(FirstTruthyQuery(all), QueryLogLimit)]
    ELSE LET query == Member(Head(rest), "query")
         IN  IF Truthy(query)
             THEN IF ~MatchesAllowedQueryRegex(query)
                  THEN [invalid |-> TRUE, errorType |-> "invalid_characters",
                        query |-> Substring0(query, QueryLogLimit)]
                  ELSE ScanQueries(Tail(rest),
                                   hasLongQuery \/ Len(query) >= MinQueryLength, all)
             ELSE ScanQueries(Tail(rest), hasLongQuery, all)

\* the validator with the length rule applied before the character rule
isInvalidQueryLengthFirst(requests) ==
    IF \A i \in 1..Len(requests) :
           Member(requests[i], "query") = <<>> \/ Member(requests[i], "query") = Undefined
    THEN [invalid |-> FALSE, errorType |-> Null, query |-> Undefined]
    ELSE IF \A i \in 1..Len(requests) :
                ~Truthy(Member(requests[i], "query")) \/ Len(Member(requests[i], "query")) < MinQueryLength
    THEN [invalid |-> TRUE, errorType |-> "too_short",
          query |-> Substring0(FirstTruthyQuery(requests), QueryLogLimit)]
    ELSE ScanQueries(requests, FALSE, requests)

\* the validator without the length rule
isInvalidQueryNoLengthRule(requests) ==
    IF \E i \in 1..Len(requests) :
           Truthy(Member(requests[i], "query")) /\ ~MatchesAllowedQueryRegex(Member(requests[i], "query"))
    THEN [invalid |-> TRUE, errorType |-> "invalid_characters",
          query |-> Substring0(FirstTruthyQuery(requests), QueryLogLimit)]
    ELSE [invalid |-> FALSE, errorType |-> Null, query |-> Undefined]

\* the validator asking every non-empty query to have the minimum length
isInvalidQueryEveryLong(requests) ==
    IF \A i \in 1..Len(requests) :
           Member(requests[i], "query") = <<>> \/ Member(requests[i], "query") = Undefined
    THEN [invalid |-> FALSE, errorType |-> Null, query |-> Undefined]
    ELSE IF \E i \in 1..Len(requests) :
                Truthy(Member(requests[i], "query")) /\ Len(Member(requests[i], "query")) < MinQueryLength
    THEN [invalid |-> TRUE, errorType |-> "too_short",
          query |-> Substring0(FirstTruthyQuery(requests), QueryLogLimit)]
    ELSE ScanQueries(requests, FALSE, requests)

\* the validator without the early return for batches of empty queries
isInvalidQueryWithoutEmptyCheck(requests) == ScanQueries(requests, FALSE, requests)

isInvalidQuery(requests) ==
    IF \A i \in 1..Len(requests) :
           Member(requests[i], "query") = <<>> \/ Member(requests[i], "query") = Undefined
    THEN [invalid |-> FALSE, errorType |-> Null, query |-> Undefined]
    ELSE ScanQueries(requests, FALSE, requests)

\* The text of a request body: text that request.json() cannot decode
\* (wellFormed FALSE, with the decoder's message), or the text of an object.
\* requestsType says what the text gives the member `requests`: nothing
\* ("undefined"), a list ("array"), an object that is not a list ("object") or
\* null ("null"); requests holds the items of the list, each the members of an
\* object in the order they are written, where a name can be written twice.
MalformedBody(message) ==
    [wellFormed |-> FALSE, message |-> message, requestsType |-> "undefined",
     requests |-> <<>>]

JsonBody(hasRequests, requests) ==
    [wellFormed |-> TRUE, message |-> Null,
     requestsType |-> IF hasRequests THEN "array" ELSE "undefined",
     requests |-> requests]

\* {"requests": {}} and {"requests": null}
JsonBodyOfType(requestsType) ==
    [wellFormed |-> TRUE, message |-> Null, requestsType |-> requestsType,
     requests |-> <<>>]

\* object[name] = value: a member the object has keeps its place and takes
\* the value, a new one goes to the end
ObjectSet(object, name, value) ==
    IF \E i \in 1..Len(object) : object[i][1] = name
    THEN [i \in 1..Len(object) |->
             IF object[i][1] = name THEN <<name, value>> ELSE object[i]]
    ELSE Append(object, <<name, value>>)

\* the object decoded from the members written, taken left to right
RECURSIVE ParseMembers(_, _)
ParseMembers(members, object) ==
    IF members = <<>> THEN object
    ELSE ParseMembers(Tail(members),
                      ObjectSet(object, Head(members)[1], Head(members)[2]))

\* request.json() on a text that decodes: the value of `requests`
JSONParse(body) ==
    [requestsType |-> body.requestsType,
     requests     |-> [i \in 1..Len(body.requests) |->
                          ParseMembers(body.requests[i], <<>>)]]

\* JSON.stringify: the text of a decoded body, each member written once
JSONStringify(decoded) ==
    [wellFormed |-> TRUE, message |-> Null, requestsType |-> decoded.requestsType,
     requests |-> decoded.requests]

\* `body?.requests`: a list and an object are truthy, null and undefined not
HasRequests(decoded) == decoded.requestsType \in {"array", "object"}

\* the 400 of the catch branch
MalformedJson(message) ==
    NewResponse(StatusBadRequest,
                ErrorBody("Malformed JSON body", "malformed_json",
                          <<"message", message>>),
                "application/json")

\* the 400 built from a validation result
InvalidQuery(validation) ==
    NewResponse(StatusBadRequest,
                ErrorBody(IF validation.errorType = "too_short"
                          THEN "Query too short (minimum 3 characters)"
                          ELSE "Query contains invalid characters",
                          validation.errorType,
                          IF Truthy(validation.query)
                          THEN <<validation.query>> ELSE <<>>),
                "application/json")

\* parseRequestBody with the catch branch answering without an errorType and
\* without the message of the error
parseRequestBodyUntypedCatch(body) ==
    IF ~body.wellFormed \/ JSONParse(body).requestsType = "object"
    THEN << NewResponse(StatusBadRequest,
                        ErrorBody("Malformed JSON body", Null, <<>>),
                        "application/json") >>
    ELSE IF /\ HasRequests(JSONParse(body))
            /\ isInvalidQuery(JSONParse(body).requests).invalid
    THEN << InvalidQuery(isInvalidQuery(JSONParse(body).requests)) >>
    ELSE <<>>

\* parseRequestBody: <<>> when the body is accepted, else <<the 400 response>>.
\* The catch branch takes the error of request.json() and the TypeError of
\* requests.every(...) in isInvalidQuery on a `requests` that is not a list.
parseRequestBody(body) ==
    IF ~body.wellFormed
    THEN << MalformedJson(body.message) >>
    ELSE LET decoded == JSONParse(body)
         IN  IF HasRequests(decoded) /\ decoded.requestsType # "array"
             THEN << MalformedJson("requests.every is not a function") >>
             ELSE IF HasRequests(decoded) /\ isInvalidQuery(decoded.requests).invalid
             THEN << InvalidQuery(isInvalidQuery(decoded.requests)) >>
             ELSE <<>>

----------------------------------------------------------------------------
(* Response cache gate: eligibility, TTL and key synthesis. *)

\* parseInt(env.CACHE_TTL_CLIENT || "0", 10) || 0
cacheTtlClient(e) ==
    NumOr(parseInt(StrOr(e.CACHE_TTL_CLIENT, DefaultTtlClientText)), DefaultTtlClient)

\* the policy without the client TTL condition: every request may be cached
shouldCacheAlways(isSSRRequest, e) == TRUE

\* the policy by TTL alone: the SSR flag does not make a request eligible
shouldCacheByClientTtl(isSSRRequest, e) == cacheTtlClient(e) > 0

\* isSSRRequest || cacheTtlClient > 0
shouldCache(isSSRRequest, e) == isSSRRequest \/ cacheTtlClient(e) > 0

\* the TTL written at store time
cacheTtl(isSSRRequest, e) ==
    IF isSSRRequest
    THEN NumOr(parseInt(StrOr(e.CACHE_TTL_SSR, DefaultTtlSsrText)), DefaultTtlSsr)
    ELSE NumOr(parseInt(StrOr(e.CACHE_TTL_CLIENT, DefaultTtlClientText)),
               DefaultTtlClient)

\* `public, max-age=${cacheTtl}`
\* `${cacheTtl}`: the decimal digits of an integer, "-" first when negative
RECURSIVE NaturalToString(_)
NaturalToString(n) ==
    IF n < 10 THEN <<Digits[n + 1]>>
    ELSE NaturalToString(n \div 10) \o <<Digits[(n % 10) + 1]>>

NumberToString(n) ==
    IF n < 0 THEN <<45>> \o NaturalToString(0 - n) ELSE NaturalToString(n)

\* `public, max-age=${cacheTtl}`
CacheControlValue(ttl) == <<"public, max-age=">> \o NumberToString(ttl)

\* searchParams.get("cacheKey") || request.headers.get("X-AS-Cache-Key")
\* the token with the header read first
cacheKeyParamHeaderFirst(req) ==
    IF req.cacheKeyHeader # Null /\ req.cacheKeyHeader # ""
    THEN req.cacheKeyHeader
    ELSE ParamGet(req.params, "cacheKey")

cacheKeyParam(req) ==
    LET fromQuery == ParamGet(req.params, "cacheKey")
    IN  IF fromQuery # Null /\ fromQuery # "" THEN fromQuery ELSE req.cacheKeyHeader

\* a string that is neither null nor empty
TruthyText(str) == str # Null /\ str # ""

\* the request URL as a cache key: pathname and ordered query pairs
NoKey == [pathname |-> Null, params |-> <<>>]

\* the key without the token parameter
cacheKeyUrlWithoutToken(req, token, isSSRRequest) ==
    [pathname |-> req.pathname,
     params |-> ParamSet(req.params, "ssr", IF isSSRRequest THEN "1" ELSE "0")]

\* the key without the SSR marker
cacheKeyUrlWithoutSsrMarker(req, token, isSSRRequest) ==
    [pathname |-> req.pathname, params |-> ParamSet(req.params, "cacheKey", token)]

\* the key with a digest of the payload as a further parameter
cacheKeyUrlWithPayload(req, token, isSSRRequest) ==
    [pathname |-> req.pathname,
     params   |-> ParamSet(ParamSet(ParamSet(req.params, "cacheKey", token),
                                    "ssr", IF isSSRRequest THEN "1" ELSE "0"),
                           "payload",
                           IF JSONParse(req.body).requests = <<>> THEN "none"
                           ELSE IF Member(JSONParse(req.body).requests[1], "query")
                                       = <<115, 99, 104, 111, 107>>
                           THEN "schok" ELSE "other")]

cacheKeyUrl(req, token, isSSRRequest) ==
    [pathname |-> req.pathname,
     params   |-> ParamSet(ParamSet(req.params, "cacheKey", token),
                           "ssr", IF isSSRRequest THEN "1" ELSE "0")]

\* the condition without the token test
EligibleWithoutToken(req, e) ==
    /\ req.method = "POST"
    /\ shouldCache(IsSSRRequest(req.ssrHeader), e)

\* request.method === "POST" && cacheKeyParam && shouldCache
Eligible(req, e) ==
    /\ req.method = "POST"
    /\ TruthyText(cacheKeyParam(req))
    /\ shouldCache(IsSSRRequest(req.ssrHeader), e)

\* the response handed to cache.put: a clone with Cache-Control overwritten
responseToCache(response, isSSRRequest, e) ==
    [response EXCEPT !.cacheControl = CacheControlValue(cacheTtl(isSSRRequest, e))]

\* a put that keeps an entry already stored under the key
CachePutIfAbsent(c, key, entry) ==
    [k \in (DOMAIN c) \cup {key} |-> IF k \in DOMAIN c THEN c[k] ELSE entry]

\* cache.put(key, response) on the map.  An entry is the stored response
\* together with a note of the request that stored it (`by`), which the code
\* does not keep and never reads.
CachePut(c, key, entry) ==
    [k \in (DOMAIN c) \cup {key} |-> IF k = key THEN entry ELSE c[k]]

\* the note: the URL, the token header and the SSR header of the storing request
NoBy == [pathname |-> Null, params |-> <<>>, cacheKeyHeader |-> Null, ssrHeader |-> Null]

StoredBy(req) ==
    [pathname |-> req.pathname, params |-> req.params,
     cacheKeyHeader |-> req.cacheKeyHeader, ssrHeader |-> req.ssrHeader]

----------------------------------------------------------------------------
(* Upstream dispatcher. *)

\* the query string without the two deletes of the analytics branch
algoliaParamsKeepingUppercase(req) ==
    LET withKey == ParamSet(req.params, "x-algolia-api-key", API_KEY)
        withId  == ParamSet(withKey, "x-algolia-application-id", APPLICATION_ID)
    IN  IF req.pathname = EVENTS_PATH
        THEN ParamSet(withId, "X-Algolia-Agent", INSIGHTS_AGENT)
        ELSE ParamSet(withId, "x-algolia-agent", SEARCH_AGENT)

\* the query string with the credentials added only where the caller gave none
algoliaParamsKeepingCaller(req) ==
    LET withKey == IF HasParam(req.params, "x-algolia-api-key") THEN req.params
                   ELSE ParamSet(req.params, "x-algolia-api-key", API_KEY)
        withId  == IF HasParam(withKey, "x-algolia-application-id") THEN withKey
                   ELSE ParamSet(withKey, "x-algolia-application-id", APPLICATION_ID)
    IN  IF req.pathname = EVENTS_PATH
        THEN ParamDelete(
                 ParamDelete(ParamSet(withId, "X-Algolia-Agent", INSIGHTS_AGENT),
                             "X-Algolia-Application-Id"),
                 "X-Algolia-API-Key")
        ELSE ParamSet(withId, "x-algolia-agent", SEARCH_AGENT)

\* the query string every upstream call carries
algoliaParams(req) ==
    LET withKey == ParamSet(req.params, "x-algolia-api-key", API_KEY)
        withId  == ParamSet(withKey, "x-algolia-application-id", APPLICATION_ID)
    IN  IF req.pathname = EVENTS_PATH
        THEN ParamDelete(
                 ParamDelete(ParamSet(withId, "X-Algolia-Agent", INSIGHTS_AGENT),
                             "X-Algolia-Application-Id"),
                 "X-Algolia-API-Key")
        ELSE ParamSet(withId, "x-algolia-agent", SEARCH_AGENT)

NoRequestBody == MalformedBody(Null)

\* bodyStr built from the items the validator looked at: those with a
\* non-empty query
bodyStrWithoutEmptyQueries(req) ==
    IF req.method = "POST"
    THEN JSONStringify([JSONParse(req.body) EXCEPT !.requests =
             SelectSeq(@, LAMBDA item : Truthy(Member(item, "query")))])
    ELSE NoRequestBody

\* bodyStr: JSON.stringify(result.body) for a POST, where result.body is what
\* request.json() decoded; undefined otherwise
bodyStr(req) ==
    IF req.method = "POST" THEN JSONStringify(JSONParse(req.body)) ELSE NoRequestBody

\* one call of the global fetch()
UpstreamCall(host, req) ==
    [host |-> host, pathname |-> req.pathname, params |-> algoliaParams(req),
     method |-> req.method, body |-> bodyStr(req)]

\* what a call of fetch() can do: resolve with a response, or reject.  The
\* Content-Type, Cache-Control and Vary of a response are the upstream's own.
Thrown == [kind |-> "throw", status |-> 0, payload |-> Null,
           contentType |-> NoHeader, cacheControl |-> <<>>, vary |-> NoHeader]

Resolved(status, payload, contentType, cacheControl, vary) ==
    [kind |-> "response", status |-> status, payload |-> payload,
     contentType |-> contentType, cacheControl |-> cacheControl, vary |-> vary]

\* no reply is held
NoReply == [kind |-> "none", status |-> 0, payload |-> Null,
            contentType |-> NoHeader, cacheControl |-> <<>>, vary |-> NoHeader]

\* the Content-Type of `new Response(text, {status})`, no header given
TEXT_PLAIN == "text/plain;charset=UTF-8"

APPLICATION_JSON == "application/json"

\* the Response fetch() resolved with, as the handler passes it on
UpstreamResponse(o) ==
    [NewResponse(o.status, TextBody(o.payload), o.contentType) EXCEPT
        !.cacheControl = o.cacheControl, !.vary = o.vary]

\* what `await response.clone().text()` can do with the body of a reply
BodyReads == {"text", "throw"}

\* the HostAttempt pushed for a call that resolved: the error body is kept
\* for a reply that is not ok, or the note of the failed read
ResponseAttempt(host, o, read) ==
    [host |-> host, status |-> o.status, ok |-> IsOk(o.status),
     error |-> IF IsOk(o.status) THEN Null
               ELSE IF read = "text" THEN o.payload
               ELSE "Failed to read error body: TypeError: Body is unusable"]

\* the HostAttempt pushed for a call that threw
ErrorAttempt(host) ==
    [host |-> host, status |-> 0, ok |-> FALSE, error |-> "TypeError: fetch failed"]

\* `Tried n host(s): host (status), host, ...`: status shown when truthy
AttemptDetails(attempts) ==
    <<"Tried", Len(attempts),
      [i \in 1..Len(attempts) |-> <<attempts[i].host, attempts[i].status>>]>>

\* the 502 as a plain-text body that names no host
AllHostsFailedPlainText(attempts) ==
    NewResponse(StatusBadGateway, TextBody("All Algolia hosts failed"),
                "text/plain;charset=UTF-8")

AllHostsFailed(attempts) ==
    NewResponse(StatusBadGateway,
                ErrorBody("All Algolia hosts failed", "algolia",
                          AttemptDetails(attempts)),
                "application/json")

InsightsUnreachable ==
    NewResponse(StatusBadGateway,
                TextBody("Failed to reach Algolia Insights endpoint"),
                "text/plain;charset=UTF-8")

----------------------------------------------------------------------------
(* Requests, upstream behaviours and configurations the model draws from. *)

NoRequest ==
    [method |-> Null, pathname |-> Null, params |-> <<>>, cacheKeyHeader |-> Null,
     ssrHeader |-> Null, origin |-> NO_ORIGIN, body |-> NoRequestBody]

\* {"indexName": "test", "query": query}, or {"indexName": "test"}
Item(query) ==
    IF query = Undefined
    THEN << <<"indexName", LabelTest>> >>
    ELSE << <<"indexName", LabelTest>>, <<"query", query>> >>

\* "schok", "ab", and an item with no query
QuerySchok == <<115, 99, 104, 111, 107>>

QueryAb == <<97, 98>>

ShopOrigin == OriginOf("https", <<LabelShop, LabelAvocadostore, LabelDe>>, Undefined)

\* a POST from the shop with the given path, URL parameters, token header,
\* SSR header and batch of one query
Post(pathname, params, cacheKeyHeader, ssrHeader, query) ==
    [method |-> "POST", pathname |-> pathname, params |-> params,
     cacheKeyHeader |-> cacheKeyHeader, ssrHeader |-> ssrHeader,
     origin |-> ShopOrigin, body |-> JsonBody(TRUE, <<Item(query)>>)]

\* a request without a body from the shop
Bodiless(method, pathname, cacheKeyHeader, ssrHeader) ==
    [method |-> method, pathname |-> pathname, params |-> <<>>,
     cacheKeyHeader |-> cacheKeyHeader, ssrHeader |-> ssrHeader,
     origin |-> ShopOrigin, body |-> NoRequestBody]

\* the x-ssr-request header absent, and with the sentinel
SsrHeaders == {Null, SSR_SENTINEL}

\* SSR-flagged requests under the token "key-1": a search, an analytics call,
\* a search the validator rejects, and a preflight
Requests ==
    { Post(SEARCH_PATH, <<>>, "key-1", SSR_SENTINEL, QuerySchok),
      Post(EVENTS_PATH, <<>>, "key-1", SSR_SENTINEL, QuerySchok),
      Post(SEARCH_PATH, <<>>, "key-1", SSR_SENTINEL, QueryAb),
      Bodiless("OPTIONS", SEARCH_PATH, "key-1", SSR_SENTINEL) }

\* a success the upstream marks as not to be stored, a non-success status
\* and a rejected call
Outcomes ==
    { Resolved(200, "hits-1", TEXT_PLAIN, <<"no-store">>, NoHeader),
      Resolved(404, "not found", APPLICATION_JSON, <<>>, NoHeader),
      Thrown }

\* the upstream answers 200, or the call is rejected
SuccessOrThrown == { Resolved(200, "hits-1", TEXT_PLAIN, <<>>, NoHeader), Thrown }

\* the bindings: nothing configured, both set to "0", and "1800" / "60"
Envs ==
    { [CACHE_TTL_SSR |-> Undefined, CACHE_TTL_CLIENT |-> Undefined],
      [CACHE_TTL_SSR |-> <<48>>, CACHE_TTL_CLIENT |-> <<48>>],
      [CACHE_TTL_SSR |-> <<49, 56, 48, 48>>, CACHE_TTL_CLIENT |-> <<54, 48>>] }

----------------------------------------------------------------------------
(* The handler fetch(request, env, ctx), one action per stretch between two *)
(* awaits: of the request body, the cache store, the upstream, or the body  *)
(* of a response.  pc names the await the invocation stands at:             *)
(*   "body"       await request.json()                in parseRequestBody   *)
(*   "errorText"  await result.error.clone().text()   in fetch              *)
(*   "match"      await cache.match(cacheKeyUrl)      in fetch              *)
(*   "fetch"      await fetch(...)          in tryAlgoliaHosts, or in the   *)
(*                                          analytics branch                *)
(*   "errorBody"  await response.clone().text()       in tryAlgoliaHosts    *)
(* and "done" once the handler has returned its response.  Beside the       *)
(* locals a slot keeps the calls the invocation made (matchCalls,           *)
(* fetchCalls, putCalls) and `after`, the invocations that were over when   *)
(* this one started.                                                        *)

Idle ==
    [pc |-> "idle", id |-> 0, after |-> {}, req |-> NoRequest, cacheKeyUrl |-> NoKey,
     isCacheHit |-> FALSE, hitBy |-> NoBy, hostIdx |-> 0, attempts |-> <<>>,
     reply |-> NoReply, response |-> NoResponse,
     matchCalls |-> <<>>, fetchCalls |-> <<>>, putCalls |-> <<>>]

Init ==
    /\ env \in Envs
    /\ cache = <<>>
    /\ h = [p \in Procs |-> Idle]
    /\ tasks = {}
    /\ nreq = 0

\* the RequestContext fields the helpers read
Context(req) ==
    [origin |-> OriginOrStar(req.origin), isSSRRequest |-> IsSSRRequest(req.ssrHeader)]

\* the return statement: stamp the origin policy on the response
Returned(hs, response) ==
    [hs EXCEPT !.pc = "done", !.hostIdx = 0, !.attempts = <<>>,
               !.response = addCorsHeaders(response, Context(hs.req).origin,
                                           Context(hs.req).isSSRRequest)]

\* a lookup that finds nothing
CacheLookupAlwaysMiss(c, key) == <<>>

\* cache.match(key) on the map: <<the stored entry>> or <<>>
CacheLookup(c, key) == IF key \in DOMAIN c THEN <<c[key]>> ELSE <<>>

\* the condition without the response.ok test
StoresAnyStatus(hs, response, e) ==
    /\ hs.cacheKeyUrl # NoKey
    /\ shouldCache(Context(hs.req).isSSRRequest, e)

\* cacheKeyUrl && response.ok && shouldCache
Stores(hs, response, e) ==
    /\ hs.cacheKeyUrl # NoKey
    /\ IsOk(response.status)
    /\ shouldCache(Context(hs.req).isSSRRequest, e)

\* the code from the cache gate to the first call it awaits: cache.match under
\* the synthesized key for an eligible request, the upstream otherwise
Proceed(hs, e) ==
    LET key == cacheKeyUrl(hs.req, cacheKeyParam(hs.req), Context(hs.req).isSSRRequest)
    IN  IF Eligible(hs.req, e)
        THEN [hs EXCEPT !.pc = "match", !.cacheKeyUrl = key, !.matchCalls = <<key>>]
        ELSE [hs EXCEPT !.pc = "fetch", !.hostIdx = 1]

\* the invocations started so far that have returned or thrown
Over == { i \in 1..nreq : \A q \in Procs : h[q].id = i => h[q].pc \in {"done", "threw"} }

\* the handler without the early return for OPTIONS
ReceiveWithoutPreflight(p, req) ==
    /\ h[p].pc = "idle"
    /\ nreq < MaxRequests
    /\ nreq' = nreq + 1
    /\ LET hs == [Idle EXCEPT !.id = nreq + 1, !.after = Over, !.req = req]
       IN  h' = [h EXCEPT ![p] =
                   IF req.method = "POST"
                   THEN [hs EXCEPT !.pc = "body"]
                   ELSE Proceed(hs, env)]
    /\ UNCHANGED <<env, cache, tasks>>

\* a request enters the handler: an OPTIONS request is answered at once, a
\* POST waits for its body, any other request goes to the cache gate
Receive(p, req) ==
    /\ h[p].pc = "idle"
    /\ nreq < MaxRequests
    /\ nreq' = nreq + 1
    /\ LET hs == [Idle EXCEPT !.id = nreq + 1, !.after = Over, !.req = req]
       IN  h' = [h EXCEPT ![p] =
                   IF req.method = "OPTIONS"
                   THEN [hs EXCEPT !.pc = "done", !.response = handleOptions(Context(req))]
                   ELSE IF req.method = "POST"
                   THEN [hs EXCEPT !.pc = "body"]
                   ELSE Proceed(hs, env)]
    /\ UNCHANGED <<env, cache, tasks>>

\* the body read with the cache gate placed before decoding and validation:
\* an eligible request is looked up whatever its body is
RequestJsonLookupFirst(p) ==
    /\ h[p].pc = "body"
    /\ LET rejected == parseRequestBody(h[p].req.body)
       IN  h' = [h EXCEPT ![p] =
                   IF Eligible(h[p].req, env) \/ rejected = <<>>
                   THEN Proceed(h[p], env)
                   ELSE [h[p] EXCEPT !.pc = "errorText", !.response = rejected[1]]]
    /\ UNCHANGED <<env, cache, tasks, nreq>>

\* request.json() settles: parseRequestBody returns the 400 it built, which
\* the handler then reads for its log, or the decoded body, with which the
\* handler goes to the cache gate
RequestJson(p) ==
    /\ h[p].pc = "body"
    /\ LET rejected == parseRequestBody(h[p].req.body)
       IN  h' = [h EXCEPT ![p] =
                   IF rejected # <<>>
                   THEN [h[p] EXCEPT !.pc = "errorText", !.response = rejected[1]]
                   ELSE Proceed(h[p], env)]
    /\ UNCHANGED <<env, cache, tasks, nreq>>

\* the text of the 400 is read: the handler returns result.error as it is
ErrorText(p) ==
    /\ h[p].pc = "errorText"
    /\ h' = [h EXCEPT ![p] = [@ EXCEPT !.pc = "done"]]
    /\ UNCHANGED <<env, cache, tasks, nreq>>

\* cache.match resolves: a hit returns the stored response, a miss dispatches
CacheMatch(p) ==
    /\ h[p].pc = "match"
    /\ LET found == CacheLookup(cache, h[p].cacheKeyUrl)
       IN  h' = [h EXCEPT ![p] =
                   IF found # <<>>
                   THEN Returned([@ EXCEPT !.isCacheHit = TRUE,
                                            !.hitBy = found[1].by],
                                 found[1].response)
                   ELSE [@ EXCEPT !.pc = "fetch", !.hostIdx = 1]]
    /\ UNCHANGED <<env, cache, tasks, nreq>>

\* cache.match rejects.  The `await cache.match(...)` of the handler stands
\* outside any try block, so the rejection rejects the promise fetch()
\* returned: the invocation ends ("threw") without a response of the handler.
CacheMatchThrows(p) ==
    /\ h[p].pc = "match"
    /\ h' = [h EXCEPT ![p] = [@ EXCEPT !.pc = "threw"]]
    /\ UNCHANGED <<env, cache, tasks, nreq>>

\* the same code storing the response after the origin policy was stamped on it
SettleStoringStamped(p, hs, response) ==
    LET store == Stores(hs, response, env)
        task  == [id |-> hs.id, key |-> hs.cacheKeyUrl, by |-> StoredBy(hs.req),
                  response |-> responseToCache(
                                   addCorsHeaders(response, Context(hs.req).origin,
                                                  Context(hs.req).isSSRRequest),
                                   Context(hs.req).isSSRRequest, env)]
    IN  /\ h' = [h EXCEPT ![p] =
                    Returned([hs EXCEPT !.putCalls =
                                 IF store THEN Append(@, hs.cacheKeyUrl) ELSE @],
                             response)]
        /\ tasks' = IF store THEN tasks \cup {task} ELSE tasks
        /\ cache' = cache

\* the same code with the put awaited: the entry is written before the return
SettleAwaitingPut(p, hs, response) ==
    LET store == Stores(hs, response, env)
        entry == [response |-> responseToCache(response,
                                               Context(hs.req).isSSRRequest, env),
                  by |-> StoredBy(hs.req)]
    IN  /\ h' = [h EXCEPT ![p] =
                    Returned([hs EXCEPT !.putCalls =
                                 IF store THEN Append(@, hs.cacheKeyUrl) ELSE @],
                             response)]
        /\ cache' = IF store THEN CachePut(cache, hs.cacheKeyUrl, entry) ELSE cache
        /\ tasks' = tasks

\* the same code storing under the URL of the request instead of the key
SettleUnderRequestUrl(p, hs, response) ==
    LET store == Stores(hs, response, env)
        url   == [pathname |-> hs.req.pathname, params |-> hs.req.params]
        task  == [id |-> hs.id, key |-> url, by |-> StoredBy(hs.req),
                  response |-> responseToCache(response,
                                               Context(hs.req).isSSRRequest, env)]
    IN  /\ h' = [h EXCEPT ![p] =
                    Returned([hs EXCEPT !.putCalls =
                                 IF store THEN Append(@, url) ELSE @],
                             response)]
        /\ tasks' = IF store THEN tasks \cup {task} ELSE tasks
        /\ cache' = cache

\* the code after fetchFromAlgolia returned `response`: register the put with
\* ctx.waitUntil when the response is to be stored, then return
Settle(p, hs, response) ==
    LET store == Stores(hs, response, env)
        task  == [id |-> hs.id, key |-> hs.cacheKeyUrl, by |-> StoredBy(hs.req),
                  response |-> responseToCache(response,
                                               Context(hs.req).isSSRRequest, env)]
    IN  /\ h' = [h EXCEPT ![p] =
                    Returned([hs EXCEPT !.putCalls =
                                 IF store THEN Append(@, hs.cacheKeyUrl) ELSE @],
                             response)]
        /\ tasks' = IF store THEN tasks \cup {task} ELSE tasks
        /\ cache' = cache

\* the analytics call tried again after a rejection
InsightsReplyRetrying(p, o) ==
    /\ h[p].pc = "fetch"
    /\ h[p].req.pathname = EVENTS_PATH
    /\ LET hs == [h[p] EXCEPT !.fetchCalls =
                     Append(@, UpstreamCall(INSIGHTS_HOST, h[p].req))]
       IN  IF o.kind = "throw" /\ Len(hs.fetchCalls) < 2
           THEN /\ h' = [h EXCEPT ![p] = hs]
                /\ UNCHANGED <<cache, tasks>>
           ELSE Settle(p, hs, IF o.kind = "throw" THEN InsightsUnreachable
                              ELSE UpstreamResponse(o))
    /\ UNCHANGED <<env, nreq>>

\* the single call of the analytics path resolves or rejects
InsightsReply(p, o) ==
    /\ h[p].pc = "fetch"
    /\ h[p].req.pathname = EVENTS_PATH
    /\ LET hs == [h[p] EXCEPT !.fetchCalls =
                     Append(@, UpstreamCall(INSIGHTS_HOST, h[p].req))]
       IN  Settle(p, hs, IF o.kind = "throw" THEN InsightsUnreachable
                         ELSE UpstreamResponse(o))
    /\ UNCHANGED <<env, nreq>>

\* the loop of tryAlgoliaHosts after a failed attempt: the next host is
\* called, or the 502 is returned when the list is exhausted
NextHost(p, hs) ==
    IF hs.hostIdx < Len(getHosts(APPLICATION_ID))
    THEN /\ h' = [h EXCEPT ![p] = [hs EXCEPT !.hostIdx = @ + 1]]
         /\ UNCHANGED <<cache, tasks>>
    ELSE Settle(p, hs, AllHostsFailed(hs.attempts))

\* the loop without the return on success: every host is called, the last
\* response decides
HostReplyTryingAllHosts(p, o) ==
    /\ h[p].pc = "fetch"
    /\ h[p].req.pathname # EVENTS_PATH
    /\ LET host == getHosts(APPLICATION_ID)[h[p].hostIdx]
           hs   == [h[p] EXCEPT !.fetchCalls = Append(@, UpstreamCall(host, h[p].req))]
       IN  IF o.kind = "throw"
           THEN NextHost(p, [hs EXCEPT !.attempts = Append(@, ErrorAttempt(host))])
           ELSE IF IsOk(o.status)
           THEN LET ok == [hs EXCEPT !.attempts =
                              Append(@, ResponseAttempt(host, o, "text"))]
                IN  IF hs.hostIdx < Len(getHosts(APPLICATION_ID))
                    THEN /\ h' = [h EXCEPT ![p] = [ok EXCEPT !.hostIdx = @ + 1]]
                         /\ UNCHANGED <<cache, tasks>>
                    ELSE Settle(p, ok, UpstreamResponse(o))
           ELSE /\ h' = [h EXCEPT ![p] = [hs EXCEPT !.pc = "errorBody", !.reply = o]]
                /\ UNCHANGED <<cache, tasks>>
    /\ UNCHANGED <<env, nreq>>

\* the loop returning whatever the first host answered
HostReplyPassingThrough(p, o) ==
    /\ h[p].pc = "fetch"
    /\ h[p].req.pathname # EVENTS_PATH
    /\ LET host == getHosts(APPLICATION_ID)[h[p].hostIdx]
           hs   == [h[p] EXCEPT !.fetchCalls = Append(@, UpstreamCall(host, h[p].req))]
       IN  IF o.kind = "throw"
           THEN NextHost(p, [hs EXCEPT !.attempts = Append(@, ErrorAttempt(host))])
           ELSE Settle(p, [hs EXCEPT !.attempts =
                              Append(@, ResponseAttempt(host, o, "text"))],
                       UpstreamResponse(o))
    /\ UNCHANGED <<env, nreq>>

\* the call to the current host of tryAlgoliaHosts settles: a rejection is
\* recorded and the loop goes on, an ok response is returned, and for a
\* response that is not ok the handler waits for its body
HostReply(p, o) ==
    /\ h[p].pc = "fetch"
    /\ h[p].req.pathname # EVENTS_PATH
    /\ LET host == getHosts(APPLICATION_ID)[h[p].hostIdx]
           hs   == [h[p] EXCEPT !.fetchCalls = Append(@, UpstreamCall(host, h[p].req))]
       IN  IF o.kind = "throw"
           THEN NextHost(p, [hs EXCEPT !.attempts = Append(@, ErrorAttempt(host))])
           ELSE IF IsOk(o.status)
           THEN Settle(p, [hs EXCEPT !.attempts =
                              Append(@, ResponseAttempt(host, o, "text"))],
                       UpstreamResponse(o))
           ELSE /\ h' = [h EXCEPT ![p] = [hs EXCEPT !.pc = "errorBody", !.reply = o]]
                /\ UNCHANGED <<cache, tasks>>
    /\ UNCHANGED <<env, nreq>>

\* the read of the body of a reply that was not ok settles, with the text or
\* by throwing: the attempt is recorded and the loop goes on
ErrorBodyRead(p, read) ==
    /\ h[p].pc = "errorBody"
    /\ LET host == getHosts(APPLICATION_ID)[h[p].hostIdx]
           hs   == [h[p] EXCEPT !.pc = "fetch", !.reply = NoReply,
                                !.attempts =
                                    Append(@, ResponseAttempt(host, h[p].reply, read))]
       IN  NextHost(p, hs)
    /\ UNCHANGED <<env, nreq>>

\* the caller has the response; the invocation is over
Deliver(p) ==
    /\ h[p].pc = "done"
    /\ h' = [h EXCEPT ![p] = Idle]
    /\ UNCHANGED <<env, cache, tasks, nreq>>

\* the invocation that threw is over
Unwind(p) ==
    /\ h[p].pc = "threw"
    /\ h' = [h EXCEPT ![p] = Idle]
    /\ UNCHANGED <<env, cache, tasks, nreq>>

\* a cache.put registered with ctx.waitUntil completes
PutComplete(t) ==
    /\ t \in tasks
    /\ cache' = CachePut(cache, t.key, [response |-> t.response, by |-> t.by])
    /\ tasks' = tasks \ {t}
    /\ UNCHANGED <<env, h, nreq>>

\* a cache.put registered with ctx.waitUntil rejects or is abandoned
PutFail(t) ==
    /\ t \in tasks
    /\ tasks' = tasks \ {t}
    /\ UNCHANGED <<env, cache, h, nreq>>

\* the slot an invocation takes when it starts: the first one that is free
FreeSlots == IF h["p1"].pc = "idle" THEN {"p1"} ELSE {"p2"}

\* The handler against an upstream whose calls resolve or reject, whose error
\* bodies can fail to read, and a cache store whose lookups and puts can fail.
Next ==
    \/ \E p \in FreeSlots, req \in Requests : Receive(p, req)
    \/ \E p \in Procs : RequestJson(p)
    \/ \E p \in Procs : ErrorText(p)
    \/ \E p \in Procs : CacheMatch(p)
    \/ \E p \in Procs : CacheMatchThrows(p)
    \/ \E p \in Procs, o \in Outcomes : InsightsReply(p, o)
    \/ \E p \in Procs, o \in Outcomes : HostReply(p, o)
    \/ \E p \in Procs, read \in BodyReads : ErrorBodyRead(p, read)
    \/ \E p \in Procs : Deliver(p)
    \/ \E p \in Procs : Unwind(p)
    \/ \E t \in tasks : PutComplete(t)
    \/ \E t \in tasks : PutFail(t)

Spec == Init /\ [][Next]_vars

----------------------------------------------------------------------------
(* The same handler over search requests that differ in what the cache     *)
(* gate reads: method, token (none, "key-1", "key-2", in the header or in   *)
(* the URL), SSR header and an `ssr` parameter of the URL's own; one of     *)
(* them has a body the validator rejects.                                   *)

\* ?cacheKey=key-1&ssr=1
TokenAndSsrParams == << <<"cacheKey", "key-1">>, <<"ssr", "1">> >>

CacheRequests ==
    { Post(SEARCH_PATH, <<>>, ck, sh, QuerySchok) :
          ck \in {Null, "key-1"}, sh \in SsrHeaders }
    \cup
    { Post(SEARCH_PATH, <<>>, "key-2", SSR_SENTINEL, QuerySchok),
      Post(SEARCH_PATH, TokenAndSsrParams, Null, Null, QuerySchok),
      Post(SEARCH_PATH, TokenAndSsrParams, Null, SSR_SENTINEL, QuerySchok),
      Post(SEARCH_PATH, <<>>, "key-1", SSR_SENTINEL, QueryAb),
      Bodiless("GET", SEARCH_PATH, "key-1", SSR_SENTINEL),
      Bodiless("OPTIONS", SEARCH_PATH, "key-1", SSR_SENTINEL),
      Bodiless("OPTIONS", EVENTS_PATH, "key-1", SSR_SENTINEL) }

CacheNext ==
    \/ \E p \in FreeSlots, req \in CacheRequests : Receive(p, req)
    \/ \E p \in Procs : RequestJson(p)
    \/ \E p \in Procs : ErrorText(p)
    \/ \E p \in Procs : CacheMatch(p)
    \/ \E p \in Procs : CacheMatchThrows(p)
    \/ \E p \in Procs, o \in SuccessOrThrown : HostReply(p, o)
    \/ \E p \in Procs : Deliver(p)
    \/ \E p \in Procs : Unwind(p)
    \/ \E t \in tasks : PutComplete(t)
    \/ \E t \in tasks : PutFail(t)

CacheSpec == Init /\ [][CacheNext]_vars

----------------------------------------------------------------------------
(* The same handler over SSR-flagged POSTs whose URLs carry parameters of   *)
(* their own: a cacheKey with or without a value, and credential           *)
(* parameters in the lowercase and the insights-js spelling.                *)

UrlParamLists ==
    { <<>>,
      << <<"cacheKey", "key-1">> >>,
      << <<"cacheKey", "">> >>,
      << <<"X-Algolia-Application-Id", "UPPERCASE_APP_ID">>,
         <<"X-Algolia-API-Key", "UPPERCASE_API_KEY">> >>,
      << <<"x-algolia-api-key", "caller-key">>,
         <<"x-algolia-application-id", "caller-app">>,
         <<"x-algolia-api-key", "caller-key-2">> >> }

\* searches with each parameter list, with and without the token header, and
\* analytics calls with the credential parameters
UrlRequests ==
    { [Post(SEARCH_PATH, ps, ck, SSR_SENTINEL, QuerySchok)
          EXCEPT !.origin = CANONICAL_ORIGIN] :
          ps \in UrlParamLists, ck \in {Null, "key-2"} }
    \cup
    { [Post(EVENTS_PATH, ps, Null, SSR_SENTINEL, QuerySchok)
          EXCEPT !.origin = CANONICAL_ORIGIN] :
          ps \in { q \in UrlParamLists : ~HasParam(q, "cacheKey") } }

UrlNext ==
    \/ \E p \in FreeSlots, req \in UrlRequests : Receive(p, req)
    \/ \E p \in Procs : RequestJson(p)
    \/ \E p \in Procs : CacheMatch(p)
    \/ \E p \in Procs : CacheMatchThrows(p)
    \/ \E p \in Procs, o \in SuccessOrThrown : InsightsReply(p, o)
    \/ \E p \in Procs, o \in SuccessOrThrown : HostReply(p, o)
    \/ \E p \in Procs : Deliver(p)
    \/ \E p \in Procs : Unwind(p)
    \/ \E t \in tasks : PutComplete(t)
    \/ \E t \in tasks : PutFail(t)

UrlSpec == Init /\ [][UrlNext]_vars

----------------------------------------------------------------------------
(* The same handler over search POSTs that differ in their body only:      *)
(* every batch of up to MaxBatch items drawn from SampleItems, a body       *)
(* without `requests`, bodies whose `requests` is null or an object that is *)
(* not a list, and bodies that are not JSON.  None of them is eligible for  *)
(* the cache, whatever the TTL settings, so one configuration is taken.     *)

MaxBatch == 2

\* "s" followed by U+2603, a character outside the allowed class
QueryInvalid == <<115, 9731>>

\* "bad\u0000script": a query of ten characters with a control character
QueryInvalidLong == <<98, 97, 100, 0, 115, 99, 114, 105, 112, 116>>

\* {"indexName": "test2", "query": "", "hitsPerPage": "20"}
ItemOtherIndex ==
    << <<"indexName", LabelTest \o <<50>>>>, <<"query", <<>>>>,
       <<"hitsPerPage", <<50, 48>>>> >>

\* {"query": "ab", "indexName": "test", "query": "schok"}: the member `query`
\* is written twice
ItemQueryTwice ==
    << <<"query", QueryAb>>, <<"indexName", LabelTest>>, <<"query", QuerySchok>> >>

SampleItems ==
    { Item(<<>>), Item(Undefined), ItemOtherIndex, ItemQueryTwice,
      Item(QueryAb), Item(QuerySchok), Item(QueryInvalid), Item(QueryInvalidLong) }

Batches == UNION { [1..n -> SampleItems] : n \in 0..MaxBatch }

BatchBodies ==
    { JsonBody(TRUE, b) : b \in Batches }
    \cup { JsonBody(FALSE, <<>>), JsonBodyOfType("null"), JsonBodyOfType("object"),
           MalformedBody("Unexpected token"),
           MalformedBody("Unexpected end of JSON input") }

BatchRequests ==
    { [method |-> "POST", pathname |-> SEARCH_PATH, params |-> <<>>,
       cacheKeyHeader |-> Null, ssrHeader |-> Null,
       origin |-> CANONICAL_ORIGIN, body |-> b] : b \in BatchBodies }

ValidatorNext ==
    \/ \E p \in FreeSlots, req \in BatchRequests : Receive(p, req)
    \/ \E p \in Procs : RequestJson(p)
    \/ \E p \in Procs : ErrorText(p)
    \/ \E p \in Procs, o \in SuccessOrThrown : HostReply(p, o)
    \/ \E p \in Procs : Deliver(p)

\* nothing configured
ValidatorInit ==
    /\ Init
    /\ env = [CACHE_TTL_SSR |-> Undefined, CACHE_TTL_CLIENT |-> Undefined]

ValidatorSpec == ValidatorInit /\ [][ValidatorNext]_vars

----------------------------------------------------------------------------
(* The same handler over POSTs that share one URL and differ in their      *)
(* token, SSR header and body: one body the validator accepts, and one of   *)
(* each kind it rejects.                                                    *)

RejectBodies ==
    { JsonBody(TRUE, <<Item(QuerySchok)>>),
      JsonBody(TRUE, <<Item(QueryAb)>>),
      JsonBody(TRUE, <<Item(QueryInvalidLong)>>),
      JsonBodyOfType("object"),
      MalformedBody("Unexpected token") }

RejectRequests ==
    { [method |-> "POST", pathname |-> SEARCH_PATH, params |-> <<>>,
       cacheKeyHeader |-> ck, ssrHeader |-> sh,
       origin |-> CANONICAL_ORIGIN, body |-> b] :
        ck \in {Null, "key-1"}, sh \in SsrHeaders, b \in RejectBodies }

RejectNext ==
    \/ \E p \in FreeSlots, req \in RejectRequests : Receive(p, req)
    \/ \E p \in Procs : RequestJson(p)
    \/ \E p \in Procs : ErrorText(p)
    \/ \E p \in Procs : CacheMatch(p)
    \/ \E p \in Procs : CacheMatchThrows(p)
    \/ \E p \in Procs, o \in SuccessOrThrown : HostReply(p, o)
    \/ \E p \in Procs : Deliver(p)
    \/ \E p \in Procs : Unwind(p)
    \/ \E t \in tasks : PutComplete(t)
    \/ \E t \in tasks : PutFail(t)

RejectSpec == Init /\ [][RejectNext]_vars

----------------------------------------------------------------------------
(* The same handler over requests that differ in their Origin header:      *)
(* origins of each allowed kind, near misses of each pattern, and no       *)
(* Origin at all; the upstream answers with a Vary header of its own,       *)
(* naming the Origin or another header.                                     *)

AllowedSampleOrigins ==
    { OriginOf("https", <<LabelWww, LabelAvocadostore, LabelDe>>, Undefined),
      OriginOf("https", <<LabelShop, LabelAvocadostore, LabelDe>>, Undefined),
      OriginOf("https", <<LabelWww, LabelAvocadostore, LabelDev>>, Undefined),
      OriginOf("https", <<LabelWww, LabelShop, LabelAvocadostore, LabelDev>>, Undefined),
      OriginOf("https", <<LabelAvocadostore, LabelDe>>, Undefined),
      OriginOf("https", <<LabelTest, LabelAvocadostore, LabelDe>>, Undefined),
      OriginOf("https", <<LabelHyphenDigit, LabelAvocadostore, LabelDev>>, Undefined),
      OriginOf("https", <<LabelStaging, LabelShop, LabelAvocadostore, LabelDe>>, Undefined),
      OriginOf("https", <<LabelZero, LabelAvocadostore, LabelDe>>, Undefined),
      OriginOf("http", <<LabelLocalhost>>, Undefined),
      OriginOf("http", <<LabelLocalhost>>, <<51, 48, 48, 48>>),
      OriginOf("https", <<LabelDash, LabelCloudflare, LabelCom>>, Undefined) }

OtherSampleOrigins ==
    { NO_ORIGIN,
      OriginOf("https", <<LabelEvil, LabelCom>>, Undefined),
      OriginOf("http", <<LabelWww, LabelAvocadostore, LabelDe>>, Undefined),
      OriginOf("https", <<LabelAvocadostore, LabelDe, LabelEvil, LabelCom>>, Undefined),
      OriginOf("https", <<LabelUpperWww, LabelAvocadostore, LabelDe>>, Undefined),
      OriginOf("https", <<LabelUnderscore, LabelAvocadostore, LabelDe>>, Undefined),
      OriginOf("https", <<<<>>, LabelAvocadostore, LabelDe>>, Undefined),
      OriginOf("https", <<LabelWww, LabelAvocadostore, LabelDe>>, <<56, 52, 52, 51>>),
      OriginOf("https", <<LabelLocalhost>>, Undefined),
      OriginOf("http", <<LabelDash, LabelCloudflare, LabelCom>>, Undefined) }

CorsRequests ==
    { [method |-> "POST", pathname |-> SEARCH_PATH, params |-> <<>>,
       cacheKeyHeader |-> "key-1", ssrHeader |-> sh, origin |-> og,
       body |-> JsonBody(TRUE, <<Item(QuerySchok)>>)] :
        sh \in SsrHeaders, og \in AllowedSampleOrigins \cup OtherSampleOrigins }
    \cup
    { [method |-> "POST", pathname |-> SEARCH_PATH, params |-> <<>>,
       cacheKeyHeader |-> "key-1", ssrHeader |-> sh, origin |-> og,
       body |-> JsonBody(TRUE, <<Item(QueryAb)>>)] :
        sh \in SsrHeaders,
        og \in { ShopOrigin, OriginOf("https", <<LabelEvil, LabelCom>>, Undefined) } }
    \cup
    { [method |-> "OPTIONS", pathname |-> SEARCH_PATH, params |-> <<>>,
       cacheKeyHeader |-> Null, ssrHeader |-> sh, origin |-> og,
       body |-> NoRequestBody] :
        sh \in SsrHeaders, og \in AllowedSampleOrigins \cup OtherSampleOrigins }

CorsOutcomes ==
    { Resolved(200, "hits-1", TEXT_PLAIN, <<>>, "Origin"),
      Resolved(200, "hits-2", APPLICATION_JSON, <<>>, "Accept-Encoding") }

CorsNext ==
    \/ \E p \in FreeSlots, req \in CorsRequests : Receive(p, req)
    \/ \E p \in Procs : RequestJson(p)
    \/ \E p \in Procs : ErrorText(p)
    \/ \E p \in Procs : CacheMatch(p)
    \/ \E p \in Procs : CacheMatchThrows(p)
    \/ \E p \in Procs, o \in CorsOutcomes : HostReply(p, o)
    \/ \E p \in Procs : Deliver(p)
    \/ \E p \in Procs : Unwind(p)
    \/ \E t \in tasks : PutComplete(t)
    \/ \E t \in tasks : PutFail(t)

CorsSpec == Init /\ [][CorsNext]_vars

----------------------------------------------------------------------------
(* The same handler over requests that differ in their x-ssr-request        *)
(* header: absent, the sentinel, and values that are not the sentinel (a   *)
(* plain "1", the sentinel in lowercase, the sentinel one character short). *)

SsrHeaderValues ==
    { Null, SSR_SENTINEL, "1", "asdf928gh2efhajsdf!!", "ASDf928gh2efhajsdf!" }

SsrRequests ==
    { [method |-> "POST", pathname |-> SEARCH_PATH, params |-> <<>>,
       cacheKeyHeader |-> "key-1", ssrHeader |-> sh, origin |-> og,
       body |-> JsonBody(TRUE, <<Item(QuerySchok)>>)] :
        sh \in SsrHeaderValues,
        og \in { ShopOrigin, OriginOf("https", <<LabelEvil, LabelCom>>, Undefined) } }
    \cup
    { [method |-> "POST", pathname |-> SEARCH_PATH, params |-> <<>>,
       cacheKeyHeader |-> "key-1", ssrHeader |-> sh, origin |-> ShopOrigin,
       body |-> JsonBody(TRUE, <<Item(QueryAb)>>)] : sh \in {SSR_SENTINEL, "1"} }
    \cup
    { [method |-> "OPTIONS", pathname |-> SEARCH_PATH, params |-> <<>>,
       cacheKeyHeader |-> Null, ssrHeader |-> sh, origin |-> ShopOrigin,
       body |-> NoRequestBody] : sh \in SsrHeaderValues }

SsrOutcomes == { Resolved(200, "hits-1", TEXT_PLAIN, <<>>, NoHeader) }

SsrNext ==
    \/ \E p \in FreeSlots, req \in SsrRequests : Receive(p, req)
    \/ \E p \in Procs : RequestJson(p)
    \/ \E p \in Procs : ErrorText(p)
    \/ \E p \in Procs : CacheMatch(p)
    \/ \E p \in Procs : CacheMatchThrows(p)
    \/ \E p \in Procs, o \in SsrOutcomes : HostReply(p, o)
    \/ \E p \in Procs : Deliver(p)
    \/ \E p \in Procs : Unwind(p)
    \/ \E t \in tasks : PutComplete(t)
    \/ \E t \in tasks : PutFail(t)

SsrSpec == Init /\ [][SsrNext]_vars

----------------------------------------------------------------------------
(* Two invocations of the handler running at the same time, over POSTs     *)
(* that share one URL and one cache token and differ in their Origin, SSR  *)
(* header and payload.  The cache store completes every put it is given.   *)

\* "shoes"
QueryShoes == <<115, 104, 111, 101, 115>>

ConcRequests ==
    { [method |-> "POST", pathname |-> SEARCH_PATH, params |-> <<>>,
       cacheKeyHeader |-> "key-1", ssrHeader |-> sh, origin |-> og, body |-> b] :
        sh \in SsrHeaders,
        og \in { OriginOf("https", <<LabelShop, LabelAvocadostore, LabelDe>>, Undefined),
                 OriginOf("https", <<LabelWww, LabelAvocadostore, LabelDev>>, Undefined),
                 OriginOf("https", <<LabelEvil, LabelCom>>, Undefined) },
        b \in { JsonBody(TRUE, <<Item(QuerySchok)>>),
                JsonBody(TRUE, <<Item(QueryShoes)>>) } }

ConcOutcomes ==
    { Resolved(200, "hits-1", TEXT_PLAIN, <<>>, NoHeader),
      Resolved(200, "hits-2", APPLICATION_JSON, <<>>, NoHeader) }

ConcNext ==
    \/ \E p \in FreeSlots, req \in ConcRequests : Receive(p, req)
    \/ \E p \in Procs : RequestJson(p)
    \/ \E p \in Procs : CacheMatch(p)
    \/ \E p \in Procs, o \in ConcOutcomes : HostReply(p, o)
    \/ \E p \in Procs : Deliver(p)
    \/ \E t \in tasks : PutComplete(t)

ConcSpec == Init /\ [][ConcNext]_vars

----------------------------------------------------------------------------
(* Progress.  Every call the handler awaits ends: the body of the request   *)
(* is read, a lookup returns or throws, an upstream call resolves or        *)
(* rejects, the body of a reply is read or the read throws.  Nothing is     *)
(* assumed about the arrival of requests or about the puts running in the   *)
(* background.                                                              *)

CallsEnd(p, outcomes) ==
    /\ WF_vars(RequestJson(p))
    /\ WF_vars(ErrorText(p))
    /\ WF_vars(CacheMatch(p) \/ CacheMatchThrows(p))
    /\ WF_vars(\E read \in BodyReads : ErrorBodyRead(p, read))
    /\ WF_vars(\E o \in outcomes : HostReply(p, o))
    /\ WF_vars(\E o \in outcomes : InsightsReply(p, o))

FairSpec == Spec /\ \A p \in Procs : CallsEnd(p, Outcomes)

----------------------------------------------------------------------------
(* Vocabulary of the properties: what a request carries, read off the      *)
(* request itself.                                                          *)

Active(p) == h[p].pc # "idle"

Done(p) == h[p].pc = "done"

\* the handler is past the read of the request body: it has turned the
\* request down or gone on with it
BodyRead(p) == h[p].pc \notin {"idle", "body"}

IsPost(req) == req.method = "POST"

SsrFlagged(req) == req.ssrHeader = SSR_SENTINEL

\* the token of a request (or of the note of one): the first cacheKey
\* parameter of the URL when it is not empty, otherwise the X-AS-Cache-Key
\* header; Null when neither gives one
TokenCarried(r) ==
    LET fromUrl == ParamGet(r.params, "cacheKey")
    IN  IF fromUrl \notin {Null, ""} THEN fromUrl
        ELSE IF r.cacheKeyHeader \notin {Null, ""} THEN r.cacheKeyHeader
        ELSE Null

CarriesToken(req) == TokenCarried(req) # Null

SameUrl(r1, r2) == r1.pathname = r2.pathname /\ r1.params = r2.params

\* (URL, token header, SSR header) of a request, as noted with an entry
NoteOf(req) ==
    [pathname |-> req.pathname, params |-> req.params,
     cacheKeyHeader |-> req.cacheKeyHeader, ssrHeader |-> req.ssrHeader]

\* the entries and the scheduled puts, as (key, note) pairs
Written ==
    { [key |-> k, by |-> cache[k].by, response |-> cache[k].response] : k \in DOMAIN cache }
    \cup { [key |-> t.key, by |-> t.by, response |-> t.response] : t \in tasks }

HoldsKey(p) == Active(p) /\ h[p].cacheKeyUrl # NoKey

CountParam(params, name) ==
    Cardinality({i \in 1..Len(params) : params[i][1] = name})

Success(status) == status \in 200..299

\* the client TTL setting is "0" or not set
ClientTtlZeroOrUnset == env.CACHE_TTL_CLIENT \in {Undefined, <<48>>}

\* the names of the members written in the text of an object
Names(item) == { item[j][1] : j \in 1..Len(item) }

\* the value the text of an object gives a name: that of the member written
\* last under it, Undefined when none is
ValueOf(item, name) ==
    LET at == { j \in 1..Len(item) : item[j][1] = name }
    IN  IF at = {} THEN Undefined
        ELSE item[CHOOSE j \in at : \A k \in at : k <= j][2]

QueryOf(item) == ValueOf(item, "query")

\* the body is the text of an object whose `requests` is a list
IsBatch(body) == body.wellFormed /\ body.requestsType = "array"

NonEmpty(query) == query # Undefined /\ query # <<>>

\* the characters the validator allows: printable ASCII, Latin-1 from U+00A0
\* and the listed symbols
AllowedChar(c) ==
    \/ c \in 32..126
    \/ c \in 160..255
    \/ c \in ListedCodeUnits

HasDisallowedChar(query) == \E j \in 1..Len(query) : ~AllowedChar(query[j])

\* the body is one that decoding or validation turns down: not JSON, an
\* object whose `requests` is an object that is not a list, a batch with a
\* disallowed character in a non-empty query, or a batch with non-empty
\* queries of which none has three characters
Rejectable(body) ==
    \/ ~body.wellFormed
    \/ body.wellFormed /\ body.requestsType = "object"
    \/ /\ IsBatch(body)
       /\ \E i \in 1..Len(body.requests) : NonEmpty(QueryOf(body.requests[i]))
       /\ \/ \E i \in 1..Len(body.requests) :
                 /\ NonEmpty(QueryOf(body.requests[i]))
                 /\ HasDisallowedChar(QueryOf(body.requests[i]))
          \/ \A i \in 1..Len(body.requests) :
                 NonEmpty(QueryOf(body.requests[i]))
                 => Len(QueryOf(body.requests[i])) < 3

\* the body passes decoding and validation
Accepted(req) == ~IsPost(req) \/ ~Rejectable(req.body)

\* POST, token present, SSR-flagged or client TTL > 0, and past validation
EligibleRequest(req) ==
    /\ IsPost(req)
    /\ CarriesToken(req)
    /\ SsrFlagged(req) \/ ~ClientTtlZeroOrUnset
    /\ Accepted(req)

\* no put was scheduled for the request in slot p
NoPutFor(p) ==
    /\ h[p].putCalls = <<>>
    /\ \A t \in tasks : t.id # h[p].id

----------------------------------------------------------------------------
(* C1: when the lookup of an eligible request returns and its synthesized   *)
(* key has an entry at that time, the handler returns the stored response's *)
(* status and body, makes no upstream fetch call and schedules no cache     *)
(* put.                                                                     *)

C1_HitShortCircuits ==
    [][\A p \in Procs :
          ( /\ h[p].pc = "match"
            /\ h'[p].pc \notin {"match", "threw"}
            /\ EligibleRequest(h[p].req)
            /\ h[p].cacheKeyUrl \in DOMAIN cache )
          => ( /\ h'[p].pc = "done"
               /\ h'[p].response.status = cache[h[p].cacheKeyUrl].response.status
               /\ h'[p].response.body = cache[h[p].cacheKeyUrl].response.body
               /\ h'[p].fetchCalls = <<>>
               /\ h'[p].putCalls = <<>>
               /\ tasks' = tasks )]_vars

C1_Witness ==
    \E p \in Procs :
        /\ Done(p)
        /\ h[p].isCacheHit
        /\ EligibleRequest(h[p].req)
        /\ h[p].cacheKeyUrl \in DOMAIN cache
        /\ h[p].response.body = cache[h[p].cacheKeyUrl].response.body
        /\ h[p].fetchCalls = <<>>

(* C2: every entry of the cache store, and every put scheduled, has a       *)
(* success (2xx) status; a handler that scheduled a put returned a success *)
(* response from its dispatch.                                              *)

C2_OnlySuccessStored ==
    /\ \A k \in DOMAIN cache : Success(cache[k].response.status)
    /\ \A t \in tasks : Success(t.response.status)
    /\ \A p \in Procs :
           (Done(p) /\ h[p].putCalls # <<>>) => Success(h[p].response.status)

C2_Witness ==
    \E p \in Procs :
        /\ Done(p)
        /\ EligibleRequest(h[p].req)
        /\ ~h[p].isCacheHit
        /\ h[p].response.status = 502
        /\ Len(h[p].fetchCalls) = 4
        /\ NoPutFor(p)
        /\ DOMAIN cache # {}

(* C3: a non-SSR POST handled while the client TTL setting is zero or unset *)
(* never calls cache match and never schedules a cache put, even when it    *)
(* carries a token and the upstream response is a success.                  *)

C3_NoClientCachingAtZeroTtl ==
    \A p \in Procs :
        ( /\ Active(p)
          /\ IsPost(h[p].req)
          /\ ~SsrFlagged(h[p].req)
          /\ ClientTtlZeroOrUnset )
        => ( /\ h[p].pc # "match"
             /\ h[p].matchCalls = <<>>
             /\ NoPutFor(p) )

C3_Witness ==
    \E p \in Procs :
        /\ Done(p)
        /\ IsPost(h[p].req)
        /\ ~SsrFlagged(h[p].req)
        /\ CarriesToken(h[p].req)
        /\ ClientTtlZeroOrUnset
        /\ h[p].response.status = 200
        /\ h[p].fetchCalls # <<>>

(* C4: a request that is not a POST, or that carries no cache token in the  *)
(* cacheKey parameter or the X-AS-Cache-Key header, never calls cache match *)
(* and never schedules a cache put, whatever its SSR flag and the TTLs.     *)

C4_NoTokenOrNotPostNeverCached ==
    \A p \in Procs :
        (Active(p) /\ (~IsPost(h[p].req) \/ ~CarriesToken(h[p].req)))
        => ( /\ h[p].pc # "match"
             /\ h[p].matchCalls = <<>>
             /\ NoPutFor(p) )

C4_Witness ==
    \E p \in Procs :
        /\ Done(p)
        /\ IsPost(h[p].req)
        /\ ~CarriesToken(h[p].req)
        /\ SsrFlagged(h[p].req)
        /\ ~ClientTtlZeroOrUnset
        /\ h[p].response.status = 200
        /\ h[p].fetchCalls # <<>>

(* C5 as stated: an SSR-flagged POST with a cache token is eligible under   *)
(* every TTL configuration: it consults the cache under its synthesized key *)
(* before any upstream call, and on a miss followed by a success upstream   *)
(* response schedules exactly one put under that key.                       *)

C5_SsrAlwaysEligible ==
    \A p \in Procs :
        ( /\ BodyRead(p)
          /\ IsPost(h[p].req)
          /\ SsrFlagged(h[p].req)
          /\ CarriesToken(h[p].req) )
        => ( /\ h[p].cacheKeyUrl # NoKey
             /\ h[p].matchCalls = <<h[p].cacheKeyUrl>>
             /\ h[p].pc = "match" => h[p].fetchCalls = <<>>
             /\ (Done(p) /\ ~h[p].isCacheHit /\ Success(h[p].response.status))
                    => h[p].putCalls = <<h[p].cacheKeyUrl>>
             /\ Len(h[p].putCalls) <= 1 )

(* C5, amended: an SSR-flagged POST with a cache token whose body passes    *)
(* decoding and validation is eligible under every TTL configuration: it    *)
(* consults the cache under its synthesized key before any upstream call,   *)
(* and on a miss followed by a success upstream response schedules exactly  *)
(* one put under that key.  One whose body is rejected is answered 400 and  *)
(* consults nothing.                                                        *)

C5_AcceptedSsrAlwaysEligible ==
    \A p \in Procs :
        ( /\ BodyRead(p)
          /\ IsPost(h[p].req)
          /\ SsrFlagged(h[p].req)
          /\ CarriesToken(h[p].req) )
        => IF Accepted(h[p].req)
           THEN /\ h[p].cacheKeyUrl # NoKey
                /\ h[p].matchCalls = <<h[p].cacheKeyUrl>>
                /\ h[p].pc = "match" => h[p].fetchCalls = <<>>
                /\ (Done(p) /\ ~h[p].isCacheHit /\ Success(h[p].response.status))
                       => h[p].putCalls = <<h[p].cacheKeyUrl>>
                /\ Len(h[p].putCalls) <= 1
           ELSE /\ h[p].response.status = 400
                /\ h[p].matchCalls = <<>>
                /\ h[p].fetchCalls = <<>>
                /\ NoPutFor(p)

C5_Witness ==
    \E p \in Procs :
        /\ Done(p)
        /\ IsPost(h[p].req)
        /\ SsrFlagged(h[p].req)
        /\ CarriesToken(h[p].req)
        /\ env.CACHE_TTL_SSR = <<48>>
        /\ env.CACHE_TTL_CLIENT = <<48>>
        /\ ~h[p].isCacheHit
        /\ h[p].response.status = 200
        /\ h[p].putCalls = <<h[p].cacheKeyUrl>>
        /\ \E t \in tasks : t.id = h[p].id /\ t.key = h[p].cacheKeyUrl

(* C6: for eligible requests with the same URL and SSR flag but different   *)
(* tokens the synthesized keys differ: a key holds the token of its own     *)
(* request, every put of a request goes under its own key, and a response   *)
(* stored for one token is never the one returned to a request carrying     *)
(* another token.                                                           *)

C6_TokensSeparateEntries ==
    /\ \A w \in Written :
           ParamGet(w.key.params, "cacheKey") = TokenCarried(w.by)
    /\ \A p \in Procs :
           HoldsKey(p) =>
               /\ ParamGet(h[p].cacheKeyUrl.params, "cacheKey") = TokenCarried(h[p].req)
               /\ \A i \in 1..Len(h[p].putCalls) : h[p].putCalls[i] = h[p].cacheKeyUrl
               /\ \A t \in tasks : t.id = h[p].id => t.key = h[p].cacheKeyUrl
               /\ \A w \in Written :
                      ( /\ SameUrl(w.by, h[p].req)
                        /\ SsrFlagged(w.by) = SsrFlagged(h[p].req)
                        /\ TokenCarried(w.by) # TokenCarried(h[p].req) )
                      => w.key # h[p].cacheKeyUrl
               /\ h[p].isCacheHit => TokenCarried(h[p].hitBy) = TokenCarried(h[p].req)

C6_Witness ==
    \E p \in Procs :
        /\ Done(p)
        /\ EligibleRequest(h[p].req)
        /\ ~h[p].isCacheHit
        /\ h[p].response.status = 200
        /\ h[p].putCalls = <<h[p].cacheKeyUrl>>
        /\ \E k \in DOMAIN cache :
               /\ SameUrl(cache[k].by, h[p].req)
               /\ SsrFlagged(cache[k].by) = SsrFlagged(h[p].req)
               /\ TokenCarried(cache[k].by) # TokenCarried(h[p].req)
               /\ k # h[p].cacheKeyUrl

(* C7: for eligible requests identical except for the SSR flag the keys     *)
(* differ: a key has exactly one ssr parameter, "1" for an SSR-flagged      *)
(* request and "0" otherwise, whatever ssr parameter the URL carried; an    *)
(* entry stored by an SSR request is never served to a non-SSR request, nor *)
(* the other way round.                                                     *)

C7_SsrFlagSeparatesEntries ==
    /\ \A w \in Written :
           ParamGet(w.key.params, "ssr") = IF SsrFlagged(w.by) THEN "1" ELSE "0"
    /\ \A p \in Procs :
           HoldsKey(p) =>
               /\ CountParam(h[p].cacheKeyUrl.params, "ssr") = 1
               /\ ParamGet(h[p].cacheKeyUrl.params, "ssr")
                      = IF SsrFlagged(h[p].req) THEN "1" ELSE "0"
               /\ \A w \in Written :
                      ( /\ SameUrl(w.by, h[p].req)
                        /\ w.by.cacheKeyHeader = h[p].req.cacheKeyHeader
                        /\ SsrFlagged(w.by) # SsrFlagged(h[p].req) )
                      => w.key # h[p].cacheKeyUrl
               /\ h[p].isCacheHit => SsrFlagged(h[p].hitBy) = SsrFlagged(h[p].req)

C7_Witness ==
    \E p \in Procs :
        /\ Done(p)
        /\ EligibleRequest(h[p].req)
        /\ ~SsrFlagged(h[p].req)
        /\ ParamGet(h[p].req.params, "ssr") = "1"
        /\ ~h[p].isCacheHit
        /\ h[p].fetchCalls # <<>>
        /\ \E k \in DOMAIN cache :
               /\ SameUrl(cache[k].by, h[p].req)
               /\ cache[k].by.cacheKeyHeader = h[p].req.cacheKeyHeader
               /\ SsrFlagged(cache[k].by)

(* C8 as stated: a repeat (same URL, same token, same SSR flag) of an       *)
(* eligible request, issued after the first request returned its success   *)
(* response from a miss, is answered from the cache.  The first request    *)
(* was over when the repeat started; its put may still be pending when the  *)
(* repeat looks the key up.                                                 *)

C8_RepeatAfterReturnHits ==
    [][\A p \in Procs :
          ( /\ h[p].pc = "match"
            /\ h'[p] # h[p]
            /\ \E t \in tasks :
                   /\ t.id \in h[p].after
                   /\ t.by = NoteOf(h[p].req)
                   /\ Success(t.response.status) )
          => ( /\ h'[p].pc = "done"
               /\ h'[p].isCacheHit )]_vars

(* C8, amended: a repeat (same URL, same token, same SSR flag) of an        *)
(* eligible request whose lookup ends while the first request's entry is in *)
(* the cache, that is once the put has completed, is answered with the      *)
(* stored response and makes no upstream call.  A repeat whose lookup ends  *)
(* while the key has no entry, the put still pending or failed, misses and  *)
(* goes to the upstream again.                                              *)

C8_RepeatAfterPutHits ==
    [][\A p \in Procs :
          (h[p].pc = "match" /\ h'[p].pc \notin {"match", "threw"})
          => ( /\ (\E k \in DOMAIN cache : cache[k].by = NoteOf(h[p].req))
                  => ( /\ h'[p].pc = "done"
                       /\ h'[p].isCacheHit
                       /\ h'[p].hitBy = NoteOf(h[p].req)
                       /\ \E k \in DOMAIN cache :
                              /\ cache[k].by = NoteOf(h[p].req)
                              /\ h'[p].response.status = cache[k].response.status
                              /\ h'[p].response.body = cache[k].response.body
                       /\ h'[p].fetchCalls = <<>> )
               /\ ( /\ \E t \in tasks :
                          t.id \in h[p].after /\ t.by = NoteOf(h[p].req)
                    /\ h[p].cacheKeyUrl \notin DOMAIN cache )
                  => ( /\ h'[p].pc = "fetch"
                       /\ ~h'[p].isCacheHit
                       /\ h'[p].hostIdx = 1
                       /\ h'[p].fetchCalls = <<>> ) )]_vars

\* the second invocation started when the first was over and is answered
\* with what the first stored
C8_Witness ==
    \E p \in Procs :
        /\ Done(p)
        /\ h[p].id = 2
        /\ h[p].after = {1}
        /\ h[p].isCacheHit
        /\ h[p].hitBy = NoteOf(h[p].req)
        /\ h[p].fetchCalls = <<>>
        /\ h[p].response.status = 200
        /\ h[p].response.body = cache[h[p].cacheKeyUrl].response.body

(* C9: the put is background work.  The step in which a handler returns     *)
(* after a miss only registers the put: it writes nothing to the cache, and *)
(* the status and body it returns are those of the upstream reply, fixed    *)
(* before the put has run; the response is out whether the put then         *)
(* completes, fails or is abandoned.                                        *)

C9_PutIsBackgroundWork ==
    [][\A p \in Procs :
          ( /\ h[p].pc = "fetch"
            /\ h'[p].pc = "done"
            /\ h'[p].putCalls # <<>> )
          => ( /\ cache' = cache
               /\ \E t \in tasks' \ tasks :
                      /\ t.id = h'[p].id
                      /\ t.key = h'[p].cacheKeyUrl
               /\ \E o \in Outcomes :
                      /\ o.kind = "response"
                      /\ h'[p].response.status = o.status
                      /\ h'[p].response.body.text = o.payload )]_vars

\* the put of the invocation has failed while its response was still to be
\* delivered: the response is the upstream's 200, the key has no entry
C9_Witness ==
    \E p \in Procs :
        /\ Done(p)
        /\ h[p].putCalls = <<h[p].cacheKeyUrl>>
        /\ h[p].response.status = 200
        /\ h[p].response.body.text = "hits-1"
        /\ \A t \in tasks : t.id # h[p].id
        /\ h[p].cacheKeyUrl \notin DOMAIN cache

(* C10 as stated: every response written to the cache carries               *)
(* `public, max-age=<ttl>` in place of the upstream Cache-Control, where    *)
(* <ttl> is the configured CACHE_TTL_SSR when the storing request is        *)
(* SSR-flagged and the configured CACHE_TTL_CLIENT otherwise.               *)

ConfiguredTtl(by) ==
    IF SsrFlagged(by) THEN env.CACHE_TTL_SSR ELSE env.CACHE_TTL_CLIENT

C10_StoredMaxAgeIsConfiguredTtl ==
    \A w \in Written :
        ConfiguredTtl(w.by) # Undefined
        => w.response.cacheControl = <<"public, max-age=">> \o ConfiguredTtl(w.by)

(* C11 as stated: with CACHE_TTL_CLIENT not configured the client TTL is    *)
(* 600 seconds, so a non-SSR POST with a cache token that missed and got a  *)
(* success response from upstream is written to the cache with             *)
(* `public, max-age=600`.                                                   *)

C11_UnsetClientTtlCachesFor600 ==
    \A p \in Procs :
        ( /\ Done(p)
          /\ IsPost(h[p].req)
          /\ ~SsrFlagged(h[p].req)
          /\ CarriesToken(h[p].req)
          /\ Accepted(h[p].req)
          /\ env.CACHE_TTL_CLIENT = Undefined
          /\ ~h[p].isCacheHit
          /\ Success(h[p].response.status) )
        => ( /\ h[p].putCalls # <<>>
             /\ \E w \in Written :
                    /\ w.by = NoteOf(h[p].req)
                    /\ w.response.cacheControl = <<"public, max-age=", 54, 48, 48>> )

----------------------------------------------------------------------------
(* Vocabulary of the dispatch properties. *)

\* the four hosts of the application id "testtest", in the order of the list
FourHosts ==
    << "testtest-dsn.algolia.net", "testtest-1.algolianet.com",
       "testtest-2.algolianet.com", "testtest-3.algolianet.com" >>

OnSearchPath(p) == Active(p) /\ h[p].req.pathname # "/1/events"

OnEventsPath(p) == Active(p) /\ h[p].req.pathname = "/1/events"

\* the handler went to the upstream: not a preflight, not a 400, not a hit
Dispatched(p) == Done(p) /\ h[p].fetchCalls # <<>>

\* the responses a call of fetch() can resolve with in this model
UpstreamSuccesses ==
    { [status |-> o.status, text |-> o.payload] :
          o \in {x \in Outcomes : x.kind = "response" /\ Success(x.status)} }

(* C13: on the search path the hosts are called in the order of the list,   *)
(* one call per step; the handler is never still dispatching after a host   *)
(* answered with a success status, and the step in which a host does so     *)
(* returns a success response of the upstream with no further call: after   *)
(* one failure and one success exactly two calls were made.                 *)

C13_FirstSuccessWins ==
    [][\A p \in Procs :
          ( /\ h[p].pc \in {"fetch", "errorBody"}
            /\ OnSearchPath(p)
            /\ h'[p] # h[p] )
          => ( /\ \A i \in 1..Len(h[p].attempts) :
                      ~h[p].attempts[i].ok /\ ~Success(h[p].attempts[i].status)
               /\ \A i \in 1..Len(h'[p].fetchCalls) :
                      h'[p].fetchCalls[i].host = FourHosts[i]
               /\ h[p].pc = "fetch"
                  => /\ Len(h[p].fetchCalls) = Len(h[p].attempts)
                     /\ Len(h'[p].fetchCalls) = Len(h[p].fetchCalls) + 1
                     /\ \/ h'[p].pc = "fetch" /\ Len(h'[p].fetchCalls) < 4
                        \/ /\ h'[p].pc = "errorBody"
                           /\ ~Success(h'[p].reply.status)
                        \/ /\ h'[p].pc = "done"
                           /\ Success(h'[p].response.status)
                           /\ [status |-> h'[p].response.status,
                               text |-> h'[p].response.body.text] \in UpstreamSuccesses
                        \/ /\ h'[p].pc = "done"
                           /\ ~Success(h'[p].response.status)
                           /\ Len(h'[p].fetchCalls) = 4
               /\ h[p].pc = "errorBody"
                  => /\ ~Success(h[p].reply.status)
                     /\ h'[p].fetchCalls = h[p].fetchCalls
                     /\ \/ h'[p].pc = "fetch" /\ Len(h'[p].fetchCalls) < 4
                        \/ /\ h'[p].pc = "done"
                           /\ ~Success(h'[p].response.status)
                           /\ Len(h'[p].fetchCalls) = 4 )]_vars

C13_Witness ==
    \E p \in Procs :
        /\ Dispatched(p)
        /\ OnSearchPath(p)
        /\ h[p].response.status = 200
        /\ h[p].response.body.text = "hits-1"
        /\ Len(h[p].fetchCalls) = 2
        /\ h[p].fetchCalls[2].host = "testtest-1.algolianet.com"

(* C14: on the search path, when all four hosts failed (any mix of          *)
(* non-success statuses and thrown errors) the response is a 502 with a     *)
(* JSON body whose error is 'All Algolia hosts failed', whose errorType is  *)
(* 'algolia' and whose details name the four attempted hosts.               *)

C14_AllHostsFailedIs502 ==
    \A p \in Procs :
        ( /\ Dispatched(p)
          /\ OnSearchPath(p)
          /\ ~Success(h[p].response.status) )
        => ( /\ Len(h[p].fetchCalls) = 4
             /\ h[p].response.status = 502
             /\ h[p].response.contentType = "application/json"
             /\ h[p].response.body.error = "All Algolia hosts failed"
             /\ h[p].response.body.errorType = "algolia"
             /\ Len(h[p].response.body.details) = 3
             /\ h[p].response.body.details[2] = 4
             /\ \A i \in 1..4 : h[p].response.body.details[3][i][1] = FourHosts[i] )

\* the four attempts were a mix: a 404, a thrown error, a thrown error, a 404
C14_Witness ==
    \E p \in Procs :
        /\ Dispatched(p)
        /\ OnSearchPath(p)
        /\ h[p].response.status = 502
        /\ h[p].response.body.errorType = "algolia"
        /\ h[p].response.body.details[3] =
               << <<FourHosts[1], 404>>, <<FourHosts[2], 0>>,
                  <<FourHosts[3], 0>>, <<FourHosts[4], 404>> >>

(* C15: a non-success status of a search host never reaches the caller:     *)
(* the attempt is recorded with its host and status and the next host is    *)
(* called; the caller receives a success response or, when no host          *)
(* succeeded, the proxy's 502.                                              *)

C15_UpstreamFailureNotPassedThrough ==
    \A p \in Procs :
        /\ (Dispatched(p) /\ OnSearchPath(p))
           => \/ Success(h[p].response.status)
              \/ /\ h[p].response.status = 502
                 /\ h[p].response.body.errorType = "algolia"
                 /\ h[p].response.body.text = Null
        /\ (h[p].pc \in {"fetch", "errorBody"} /\ OnSearchPath(p))
           => /\ h[p].hostIdx = Len(h[p].attempts) + 1
              /\ \A i \in 1..Len(h[p].attempts) :
                     /\ h[p].attempts[i].host = FourHosts[i]
                     /\ ~Success(h[p].attempts[i].status)
        /\ h[p].pc = "errorBody"
           => /\ ~Success(h[p].reply.status)
              /\ Len(h[p].fetchCalls) = h[p].hostIdx

\* every host answered 404
C15_Witness ==
    \E p \in Procs :
        /\ Dispatched(p)
        /\ OnSearchPath(p)
        /\ h[p].response.status = 502
        /\ \A i \in 1..4 : h[p].response.body.details[3][i] = <<FourHosts[i], 404>>

(* C16: on the analytics path a dispatch makes exactly one upstream call,   *)
(* to insights.algolia.io and to no search host; when the response is the   *)
(* proxy's 502 for a thrown call it has the plain-text body                 *)
(* 'Failed to reach Algolia Insights endpoint'.                             *)

C16_InsightsSingleCall ==
    \A p \in Procs :
        OnEventsPath(p)
        => ( /\ Len(h[p].fetchCalls) <= 1
             /\ \A i \in 1..Len(h[p].fetchCalls) :
                    h[p].fetchCalls[i].host = "insights.algolia.io"
             /\ h[p].attempts = <<>>
             /\ Dispatched(p) => Len(h[p].fetchCalls) = 1
             /\ (Dispatched(p) /\ h[p].response.status = 502)
                    => /\ h[p].response.body.text
                              = "Failed to reach Algolia Insights endpoint"
                       /\ h[p].response.body.error = Null
                       /\ h[p].response.contentType = "text/plain;charset=UTF-8" )

C16_Witness ==
    \E p \in Procs :
        /\ OnEventsPath(p)
        /\ Dispatched(p)
        /\ IsPost(h[p].req)
        /\ h[p].response.status = 502
        /\ h[p].response.body.text = "Failed to reach Algolia Insights endpoint"
        /\ Len(h[p].fetchCalls) = 1

(* C18 as stated: a POST to the analytics path /1/events never calls cache  *)
(* match and never schedules a cache put, even when it is SSR-flagged,      *)
(* carries a cache token and the upstream response is a success.            *)

C18_EventsNeverCached ==
    \A p \in Procs :
        (OnEventsPath(p) /\ IsPost(h[p].req))
        => ( /\ h[p].pc # "match"
             /\ h[p].matchCalls = <<>>
             /\ NoPutFor(p) )

(* C12 as stated: when the cacheKey parameter and the X-AS-Cache-Key header *)
(* are both present the token of the key is the parameter's value, and the  *)
(* header's value is the token only when the parameter is absent.           *)

C12_ParameterPresentWins ==
    \A p \in Procs :
        HoldsKey(p) =>
            /\ ( /\ HasParam(h[p].req.params, "cacheKey")
                 /\ h[p].req.cacheKeyHeader # Null )
               => ParamGet(h[p].cacheKeyUrl.params, "cacheKey")
                      = ParamGet(h[p].req.params, "cacheKey")
            /\ ( /\ h[p].req.cacheKeyHeader # Null
                 /\ ParamGet(h[p].cacheKeyUrl.params, "cacheKey") = h[p].req.cacheKeyHeader
                 /\ ParamGet(h[p].req.params, "cacheKey") # h[p].req.cacheKeyHeader )
               => ~HasParam(h[p].req.params, "cacheKey")

(* C12, amended: when the cacheKey parameter has a non-empty value and the  *)
(* X-AS-Cache-Key header is present, the token of the key is the            *)
(* parameter's value; the header's value is the token when the parameter is *)
(* absent or has the empty value.  The key has one cacheKey parameter.      *)

C12_ParameterWithValueWins ==
    \A p \in Procs :
        HoldsKey(p) =>
            /\ CountParam(h[p].cacheKeyUrl.params, "cacheKey") = 1
            /\ h[p].matchCalls = <<h[p].cacheKeyUrl>>
            /\ ParamGet(h[p].req.params, "cacheKey") \notin {Null, ""}
               => ParamGet(h[p].cacheKeyUrl.params, "cacheKey")
                      = ParamGet(h[p].req.params, "cacheKey")
            /\ ParamGet(h[p].req.params, "cacheKey") \in {Null, ""}
               => ParamGet(h[p].cacheKeyUrl.params, "cacheKey") = h[p].req.cacheKeyHeader

C12_Witness ==
    \E p \in Procs :
        /\ Done(p)
        /\ ParamGet(h[p].req.params, "cacheKey") = "key-1"
        /\ h[p].req.cacheKeyHeader = "key-2"
        /\ ParamGet(h[p].cacheKeyUrl.params, "cacheKey") = "key-1"
        /\ h[p].putCalls = <<h[p].cacheKeyUrl>>
        /\ \E k \in DOMAIN cache :
               /\ cache[k].by.params = <<>>
               /\ cache[k].by.cacheKeyHeader = "key-2"
               /\ cache[k].by.pathname = h[p].req.pathname
               /\ ParamGet(k.params, "cacheKey") = "key-2"

(* C17: on the analytics path the forwarded URL has one x-algolia-api-key   *)
(* and one x-algolia-application-id parameter, with the configured values,  *)
(* and no X-Algolia-Application-Id and no X-Algolia-API-Key parameter,      *)
(* whatever the caller's URL carried.                                       *)

C17_InsightsUrlLowercaseCredentials ==
    \A p \in Procs :
        OnEventsPath(p) =>
            \A i \in 1..Len(h[p].fetchCalls) :
                LET sent == h[p].fetchCalls[i].params
                IN  /\ CountParam(sent, "x-algolia-api-key") = 1
                    /\ CountParam(sent, "x-algolia-application-id") = 1
                    /\ ParamGet(sent, "x-algolia-api-key") = "test-api-key"
                    /\ ParamGet(sent, "x-algolia-application-id") = "testtest"
                    /\ CountParam(sent, "X-Algolia-Application-Id") = 0
                    /\ CountParam(sent, "X-Algolia-API-Key") = 0

C17_Witness ==
    \E p \in Procs :
        /\ OnEventsPath(p)
        /\ Dispatched(p)
        /\ ParamGet(h[p].req.params, "X-Algolia-Application-Id") = "UPPERCASE_APP_ID"
        /\ ParamGet(h[p].req.params, "X-Algolia-API-Key") = "UPPERCASE_API_KEY"
        /\ h[p].fetchCalls[1].host = "insights.algolia.io"
        /\ ParamGet(h[p].fetchCalls[1].params, "x-algolia-api-key") = "test-api-key"
        /\ ParamGet(h[p].fetchCalls[1].params, "x-algolia-application-id") = "testtest"
        /\ h[p].response.status = 200

(* C19: every upstream call, to a search host or to the insights host,      *)
(* carries exactly one x-algolia-api-key and one x-algolia-application-id   *)
(* parameter, equal to the configured pair, whatever values the caller's    *)
(* URL gave under those names.                                              *)

C19_CredentialsAlwaysConfigured ==
    \A p \in Procs :
        \A i \in 1..Len(h[p].fetchCalls) :
            LET sent == h[p].fetchCalls[i].params
            IN  /\ CountParam(sent, "x-algolia-api-key") = 1
                /\ CountParam(sent, "x-algolia-application-id") = 1
                /\ ParamGet(sent, "x-algolia-api-key") = "test-api-key"
                /\ ParamGet(sent, "x-algolia-application-id") = "testtest"

C19_Witness ==
    \E p \in Procs :
        /\ OnSearchPath(p)
        /\ Dispatched(p)
        /\ ParamGet(h[p].req.params, "x-algolia-api-key") = "caller-key"
        /\ ParamGet(h[p].req.params, "x-algolia-application-id") = "caller-app"
        /\ Len(h[p].fetchCalls) = 2
        /\ \A i \in 1..2 :
               /\ ParamGet(h[p].fetchCalls[i].params, "x-algolia-api-key") = "test-api-key"
               /\ ParamGet(h[p].fetchCalls[i].params, "x-algolia-application-id") = "testtest"
        /\ h[p].response.status = 200

(* C20: a search batch in which the query of every item is the empty        *)
(* string or absent is accepted by the validator, for any number of items,  *)
(* zero included: the handler produces no 400 for it and goes on to the     *)
(* dispatch.                                                                *)

\* what a JSON text of a request body says and what another says are the
\* same: `requests` of the same kind, as many items, in the same order, each
\* with the same names and the same value under every name
SamePayload(sent, body) ==
    /\ sent.wellFormed
    /\ body.wellFormed
    /\ sent.requestsType = body.requestsType
    /\ Len(sent.requests) = Len(body.requests)
    /\ \A i \in 1..Len(body.requests) :
           /\ Names(sent.requests[i]) = Names(body.requests[i])
           /\ \A name \in Names(body.requests[i]) :
                  ValueOf(sent.requests[i], name) = ValueOf(body.requests[i], name)

AllQueriesEmptyOrAbsent(body) ==
    /\ IsBatch(body)
    /\ \A i \in 1..Len(body.requests) :
           QueryOf(body.requests[i]) = <<>> \/ QueryOf(body.requests[i]) = Undefined

C20_EmptyBatchesAccepted ==
    \A p \in Procs :
        ( /\ BodyRead(p)
          /\ IsPost(h[p].req)
          /\ AllQueriesEmptyOrAbsent(h[p].req.body) )
        => ( /\ h[p].response.status # 400
             /\ \/ h[p].pc \in {"match", "fetch", "errorBody"}
                \/ Dispatched(p)
                \/ Done(p) /\ h[p].isCacheHit
             /\ \A i \in 1..Len(h[p].fetchCalls) :
                    SamePayload(h[p].fetchCalls[i].body, h[p].req.body) )

C20_Witness ==
    \E p \in Procs :
        /\ Dispatched(p)
        /\ h[p].response.status = 200
        /\ AllQueriesEmptyOrAbsent(h[p].req.body)
        /\ Len(h[p].req.body.requests) = 2
        /\ QueryOf(h[p].req.body.requests[1]) = <<>>
        /\ ValueOf(h[p].req.body.requests[1], "indexName") = <<116, 101, 115, 116, 50>>
        /\ "query" \notin Names(h[p].req.body.requests[2])

----------------------------------------------------------------------------

\* the handler has built a 400 of the given kind for the request in slot p,
\* which it returns, without going to the cache or the upstream
RejectedAs(p, errorType, error) ==
    /\ h[p].pc \in {"errorText", "done"}
    /\ h[p].response.status = 400
    /\ h[p].response.contentType = "application/json"
    /\ h[p].response.body.errorType = errorType
    /\ h[p].response.body.error = error
    /\ h[p].fetchCalls = <<>>

(* C21: a batch with a non-empty query that has a character outside the     *)
(* allowed set is rejected with 400 and errorType 'invalid_characters',     *)
(* whatever the lengths of its queries and wherever the query stands in the *)
(* batch, also when no query of the batch has three characters.             *)

C21_InvalidCharactersFirst ==
    \A p \in Procs :
        ( /\ BodyRead(p)
          /\ IsPost(h[p].req)
          /\ IsBatch(h[p].req.body)
          /\ \E i \in 1..Len(h[p].req.body.requests) :
                 /\ NonEmpty(QueryOf(h[p].req.body.requests[i]))
                 /\ HasDisallowedChar(QueryOf(h[p].req.body.requests[i])) )
        => RejectedAs(p, "invalid_characters", "Query contains invalid characters")

\* a short allowed query first, then a short query with a disallowed character
C21_Witness ==
    \E p \in Procs :
        /\ Done(p)
        /\ RejectedAs(p, "invalid_characters", "Query contains invalid characters")
        /\ Len(h[p].req.body.requests) = 2
        /\ QueryOf(h[p].req.body.requests[1]) = <<97, 98>>
        /\ QueryOf(h[p].req.body.requests[2]) = <<115, 9731>>

(* C22: a batch with at least one non-empty query, no query with a          *)
(* disallowed character and no query of three or more characters is         *)
(* rejected with 400, errorType 'too_short' and the message                 *)
(* 'Query too short (minimum 3 characters)'.                                *)

C22_AllShortIsTooShort ==
    \A p \in Procs :
        ( /\ BodyRead(p)
          /\ IsPost(h[p].req)
          /\ IsBatch(h[p].req.body)
          /\ \E i \in 1..Len(h[p].req.body.requests) :
                 NonEmpty(QueryOf(h[p].req.body.requests[i]))
          /\ \A i \in 1..Len(h[p].req.body.requests) :
                 NonEmpty(QueryOf(h[p].req.body.requests[i]))
                 => /\ ~HasDisallowedChar(QueryOf(h[p].req.body.requests[i]))
                    /\ Len(QueryOf(h[p].req.body.requests[i])) < 3 )
        => RejectedAs(p, "too_short", "Query too short (minimum 3 characters)")

C22_Witness ==
    \E p \in Procs :
        /\ Done(p)
        /\ RejectedAs(p, "too_short", "Query too short (minimum 3 characters)")
        /\ Len(h[p].req.body.requests) = 2
        /\ QueryOf(h[p].req.body.requests[1]) = <<>>
        /\ QueryOf(h[p].req.body.requests[2]) = <<97, 98>>
        /\ h[p].response.body.details = << <<97, 98>> >>

(* C23: a batch in which every non-empty query has only allowed characters  *)
(* and at least one query has three or more characters is accepted, also    *)
(* when other items have empty queries or non-empty queries of fewer than   *)
(* three characters: no 400 is produced and the request is dispatched.      *)

C23_OneLongQuerySuffices ==
    \A p \in Procs :
        ( /\ BodyRead(p)
          /\ IsPost(h[p].req)
          /\ IsBatch(h[p].req.body)
          /\ \A i \in 1..Len(h[p].req.body.requests) :
                 NonEmpty(QueryOf(h[p].req.body.requests[i]))
                 => ~HasDisallowedChar(QueryOf(h[p].req.body.requests[i]))
          /\ \E i \in 1..Len(h[p].req.body.requests) :
                 /\ NonEmpty(QueryOf(h[p].req.body.requests[i]))
                 /\ Len(QueryOf(h[p].req.body.requests[i])) >= 3 )
        => ( /\ h[p].response.status # 400
             /\ \/ h[p].pc \in {"match", "fetch", "errorBody"}
                \/ Dispatched(p)
                \/ Done(p) /\ h[p].isCacheHit )

C23_Witness ==
    \E p \in Procs :
        /\ Dispatched(p)
        /\ h[p].response.status = 200
        /\ Len(h[p].req.body.requests) = 2
        /\ QueryOf(h[p].req.body.requests[1]) = <<97, 98>>
        /\ QueryOf(h[p].req.body.requests[2]) = <<115, 99, 104, 111, 107>>

(* C24: a POST whose body is not JSON is rejected with 400 and a JSON body  *)
(* with error 'Malformed JSON body', errorType 'malformed_json' and the     *)
(* decoder's message as details; the errorType is neither of the two        *)
(* validator kinds, and no body that is JSON with a list (or nothing) under *)
(* `requests` is rejected as malformed.                                     *)

C24_MalformedJsonRejected ==
    \A p \in Procs :
        (BodyRead(p) /\ IsPost(h[p].req))
        => ( /\ ~h[p].req.body.wellFormed
                => ( /\ RejectedAs(p, "malformed_json", "Malformed JSON body")
                     /\ h[p].response.body.details
                            = <<"message", h[p].req.body.message>>
                     /\ h[p].response.body.errorType
                            \notin {"too_short", "invalid_characters"} )
             /\ ( /\ h[p].req.body.wellFormed
                  /\ h[p].req.body.requestsType \in {"array", "undefined", "null"} )
                => ~RejectedAs(p, "malformed_json", "Malformed JSON body") )

C24_Witness ==
    \E p \in Procs :
        /\ Done(p)
        /\ RejectedAs(p, "malformed_json", "Malformed JSON body")
        /\ h[p].response.body.details = <<"message", "Unexpected end of JSON input">>

\* the key the handler would look up for the request
KeyOf(req) == cacheKeyUrl(req, cacheKeyParam(req), IsSSRRequest(req.ssrHeader))

(* C25: a POST that decoding or validation rejects is answered with 400     *)
(* before any cache or upstream activity: no cache match, no upstream       *)
(* fetch and no cache put happen for it, also when it carries a token whose *)
(* key has an entry.                                                        *)

C25_RejectedBeforeCacheAndUpstream ==
    \A p \in Procs :
        ( /\ BodyRead(p)
          /\ IsPost(h[p].req)
          /\ Rejectable(h[p].req.body) )
        => ( /\ h[p].pc \in {"errorText", "done"}
             /\ h[p].response.status = 400
             /\ h[p].response.body.errorType
                    \in {"malformed_json", "too_short", "invalid_characters"}
             /\ h[p].matchCalls = <<>>
             /\ ~h[p].isCacheHit
             /\ h[p].fetchCalls = <<>>
             /\ NoPutFor(p) )

\* a rejected request carrying a token under whose key an entry is stored
C25_Witness ==
    \E p \in Procs :
        /\ Done(p)
        /\ h[p].response.status = 400
        /\ h[p].response.body.errorType = "too_short"
        /\ CarriesToken(h[p].req)
        /\ SsrFlagged(h[p].req)
        /\ KeyOf(h[p].req) \in DOMAIN cache

\* the response carries the four CORS headers
CarriesCorsHeaders(response) ==
    /\ response.allowOrigin # <<>>
    /\ response.allowMethods = ALLOW_METHODS
    /\ response.allowHeaders = ALLOW_HEADERS
    /\ response.maxAge = PREFLIGHT_MAX_AGE

(* C26: every response the handler returns carries the CORS headers         *)
(* Access-Control-Allow-Origin, -Methods, -Headers and -Max-Age, on every   *)
(* path: OPTIONS, cache hit, upstream success, 502, analytics failure and   *)
(* the 400 rejections.                                                      *)

C26_EveryResponseCarriesCors ==
    \A p \in Procs : Done(p) => CarriesCorsHeaders(h[p].response)

IsOptions(req) == req.method = "OPTIONS"

(* C27: an OPTIONS request to any path is answered at once: the response is *)
(* 204 without a body, with an Access-Control-Allow-Origin, with            *)
(* Access-Control-Allow-Methods 'GET, POST, OPTIONS', the fixed             *)
(* allow-headers list and Access-Control-Max-Age 86400, and no body         *)
(* decoding, cache match, cache put or upstream call happens for it.        *)

C27_PreflightShortCircuits ==
    \A p \in Procs :
        (Active(p) /\ IsOptions(h[p].req))
        => ( /\ Done(p)
             /\ h[p].response.status = 204
             /\ h[p].response.body = NoBody
             /\ h[p].response.allowOrigin
                    \in {<<CANONICAL_ORIGIN>>, <<h[p].req.origin>>}
             /\ h[p].response.allowMethods = "GET, POST, OPTIONS"
             /\ h[p].response.allowHeaders = ALLOW_HEADERS
             /\ h[p].response.maxAge = "86400"
             /\ h[p].matchCalls = <<>>
             /\ ~h[p].isCacheHit
             /\ h[p].fetchCalls = <<>>
             /\ NoPutFor(p) )

\* a preflight to the analytics path that carries a token and the SSR
\* header, answered while the cache holds an entry
C27_Witness ==
    \E p \in Procs :
        /\ Done(p)
        /\ IsOptions(h[p].req)
        /\ h[p].req.pathname = EVENTS_PATH
        /\ CarriesToken(h[p].req)
        /\ SsrFlagged(h[p].req)
        /\ h[p].response.status = 204
        /\ DOMAIN cache # {}

----------------------------------------------------------------------------
(* Vocabulary of the origin policy, read off the Origin header. *)

\* a label of the host is made of lowercase letters, digits and hyphens
LowercaseLabel(label) ==
    /\ label # <<>>
    /\ \A j \in DOMAIN label :
           \/ label[j] = 45
           \/ label[j] >= 48 /\ label[j] <= 57
           \/ label[j] >= 97 /\ label[j] <= 122

\* https://[sub.]*avocadostore.de or .dev, http://localhost[:port], or the
\* Cloudflare dashboard
AllowedOrigin(origin) ==
    \/ /\ origin.scheme = "https"
       /\ origin.port = Undefined
       /\ Len(origin.labels) >= 2
       /\ SubSeq(origin.labels, Len(origin.labels) - 1, Len(origin.labels))
              \in {<<LabelAvocadostore, LabelDe>>, <<LabelAvocadostore, LabelDev>>}
       /\ \A i \in 1..(Len(origin.labels) - 2) : LowercaseLabel(origin.labels[i])
    \/ /\ origin.scheme = "http"
       /\ origin.labels = <<LabelLocalhost>>
    \/ origin = OriginOf("https", <<LabelDash, LabelCloudflare, LabelCom>>, Undefined)

\* the handler went through OPTIONS, the cache or the upstream: it did not
\* turn the body down
NotRejected(p) == h[p].response.status # 400

(* C28: for an SSR-flagged request Access-Control-Allow-Origin is always    *)
(* https://www.avocadostore.de, on OPTIONS and on actual responses, also    *)
(* when the request's Origin is an allowed origin other than that one.      *)

C28_SsrGetsCanonicalOrigin ==
    \A p \in Procs :
        (Done(p) /\ SsrFlagged(h[p].req))
        => h[p].response.allowOrigin =
               << OriginOf("https", <<LabelWww, LabelAvocadostore, LabelDe>>, Undefined) >>

\* the same for the responses of SSR-flagged requests that were not rejected
SsrGetsCanonicalOriginUnlessRejected ==
    \A p \in Procs :
        (Done(p) /\ SsrFlagged(h[p].req) /\ NotRejected(p))
        => h[p].response.allowOrigin =
               << OriginOf("https", <<LabelWww, LabelAvocadostore, LabelDe>>, Undefined) >>

(* C29: for a request without the SSR flag whose Origin matches the         *)
(* avocadostore.de/.dev subdomain pattern or http://localhost[:port], or is *)
(* https://dash.cloudflare.com, the response's Access-Control-Allow-Origin  *)
(* is that origin and its Vary is 'Origin'.                                 *)

C29_AllowedOriginEchoed ==
    \A p \in Procs :
        (Done(p) /\ ~SsrFlagged(h[p].req) /\ AllowedOrigin(h[p].req.origin))
        => ( /\ h[p].response.allowOrigin = <<h[p].req.origin>>
             /\ h[p].response.vary = "Origin" )

\* the same for the responses that were not rejected
AllowedOriginEchoedUnlessRejected ==
    \A p \in Procs :
        ( /\ Done(p)
          /\ ~SsrFlagged(h[p].req)
          /\ AllowedOrigin(h[p].req.origin)
          /\ NotRejected(p) )
        => ( /\ h[p].response.allowOrigin = <<h[p].req.origin>>
             /\ h[p].response.vary = "Origin" )

(* C30: for a request without the SSR flag whose Origin is absent or        *)
(* matches none of the allowed patterns, the response's                     *)
(* Access-Control-Allow-Origin is https://www.avocadostore.de and the       *)
(* response has no Vary header, on OPTIONS and on actual responses,         *)
(* whatever headers the upstream or the cached response had.                *)

C30_OtherOriginGetsCanonicalNoVary ==
    \A p \in Procs :
        (Done(p) /\ ~SsrFlagged(h[p].req) /\ ~AllowedOrigin(h[p].req.origin))
        => ( /\ h[p].response.allowOrigin =
                    << OriginOf("https", <<LabelWww, LabelAvocadostore, LabelDe>>, Undefined) >>
             /\ h[p].response.vary = NoHeader )

\* the allow-origin part alone, for the responses that were not rejected
OtherOriginGetsCanonicalUnlessRejected ==
    \A p \in Procs :
        ( /\ Done(p)
          /\ ~SsrFlagged(h[p].req)
          /\ ~AllowedOrigin(h[p].req.origin)
          /\ NotRejected(p) )
        => h[p].response.allowOrigin =
               << OriginOf("https", <<LabelWww, LabelAvocadostore, LabelDe>>, Undefined) >>

\* the Vary part alone, for the responses that were not rejected: violated
\* by a response whose upstream or cached original had a Vary of its own
OtherOriginNoVaryUnlessRejected ==
    \A p \in Procs :
        ( /\ Done(p)
          /\ ~SsrFlagged(h[p].req)
          /\ ~AllowedOrigin(h[p].req.origin)
          /\ NotRejected(p) )
        => h[p].response.vary = NoHeader

----------------------------------------------------------------------------
(* Vocabulary of the SSR flag. *)

\* the x-ssr-request header is not the sentinel (absent, or some other value)
NotSentinel(req) == req.ssrHeader # "ASDf928gh2efhajsdf!!"

\* the allow-origin a request without the flag is given
NonSsrAllowOrigin(req) ==
    IF AllowedOrigin(req.origin)
    THEN <<req.origin>>
    ELSE << OriginOf("https", <<LabelWww, LabelAvocadostore, LabelDe>>, Undefined) >>

\* the Cache-Control written for a request without the flag, by the client TTL
ClientCacheControl ==
    <<"public, max-age=">> \o (IF env.CACHE_TTL_CLIENT = Undefined THEN <<48>>
                               ELSE env.CACHE_TTL_CLIENT)

(* C31: a request whose x-ssr-request header is not exactly the sentinel is *)
(* treated as non-SSR wherever the flag is used: it is eligible for the     *)
(* cache only by the client TTL, its key has the marker ssr=0, what it      *)
(* stores is given the client TTL, and its allow-origin is decided by its   *)
(* Origin (a 400 for a rejected body names no origin, with the flag or      *)
(* without).                                                                *)

C31_SsrOnlyByExactSentinel ==
    \A p \in Procs :
        (Active(p) /\ NotSentinel(h[p].req))
        => ( /\ ClientTtlZeroOrUnset
                => (h[p].matchCalls = <<>> /\ ~HoldsKey(p) /\ NoPutFor(p))
             /\ HoldsKey(p) => ParamGet(h[p].cacheKeyUrl.params, "ssr") = "0"
             /\ \A t \in tasks :
                    t.id = h[p].id
                    => /\ ParamGet(t.key.params, "ssr") = "0"
                       /\ t.response.cacheControl = ClientCacheControl
             /\ Done(p)
                => h[p].response.allowOrigin =
                       IF IsPost(h[p].req) /\ Rejectable(h[p].req.body)
                       THEN <<>>
                       ELSE NonSsrAllowOrigin(h[p].req) )

\* a POST with the sentinel in lowercase from an allowed origin: the origin
\* is echoed and the put is scheduled under the ssr=0 key
C31_Witness ==
    \E p \in Procs :
        /\ Done(p)
        /\ IsPost(h[p].req)
        /\ h[p].req.ssrHeader = "asdf928gh2efhajsdf!!"
        /\ h[p].response.allowOrigin =
               << OriginOf("https", <<LabelShop, LabelAvocadostore, LabelDe>>, Undefined) >>
        /\ h[p].putCalls # <<>>
        /\ ParamGet(h[p].cacheKeyUrl.params, "ssr") = "0"

----------------------------------------------------------------------------

\* the calls made so far went to the first hosts of the list, in its order
CallsFollowHostOrder(hs) ==
    /\ Len(hs.fetchCalls) <= 4
    /\ \A i \in 1..Len(hs.fetchCalls) : hs.fetchCalls[i].host = FourHosts[i]

(* C32: the search dispatcher calls the hosts in the order dsn, -1, -2, -3: *)
(* a step adds at most one call, the call to host k+1 is added only when    *)
(* the call to host k has ended with a non-success status or thrown, while  *)
(* dispatching exactly one host is the one being called, no host is called  *)
(* twice and no request makes more than four calls.                         *)

C32_HostsInFixedOrderOneAtATime ==
    [][\A p \in Procs :
          (OnSearchPath(p) /\ h'[p].id = h[p].id)
          => ( /\ CallsFollowHostOrder(h[p])
               /\ CallsFollowHostOrder(h'[p])
               /\ h[p].pc = "fetch"
                  => /\ h[p].hostIdx = Len(h[p].fetchCalls) + 1
                     /\ Len(h[p].attempts) = Len(h[p].fetchCalls)
                     /\ \A i \in 1..Len(h[p].attempts) : ~h[p].attempts[i].ok
               /\ h[p].pc = "errorBody"
                  => /\ h[p].hostIdx = Len(h[p].fetchCalls)
                     /\ Len(h[p].attempts) + 1 = Len(h[p].fetchCalls)
                     /\ ~Success(h[p].reply.status)
                     /\ \A i \in 1..Len(h[p].attempts) : ~h[p].attempts[i].ok
               /\ Len(h'[p].fetchCalls) # Len(h[p].fetchCalls)
                  => /\ h[p].pc = "fetch"
                     /\ h'[p].fetchCalls =
                            Append(h[p].fetchCalls, h'[p].fetchCalls[h[p].hostIdx])
                     /\ h'[p].fetchCalls[h[p].hostIdx].host = FourHosts[h[p].hostIdx] )
      ]_vars

\* three hosts failed and the fourth answered
C32_Witness ==
    \E p \in Procs :
        /\ Done(p)
        /\ h[p].response.status = 200
        /\ Len(h[p].fetchCalls) = 4
        /\ h[p].fetchCalls[4].host = "testtest-3.algolianet.com"

----------------------------------------------------------------------------

\* the handler has a response to return
HasResponse(hs) == hs.pc = "done" /\ hs.response.status \in 100..599

(* C33: when the lookup in the cache store ends, also by failing, the       *)
(* request is not aborted: the handler goes on to the upstream, as after a  *)
(* miss, or returns a response.                                             *)

C33_LookupFailureDoesNotAbort ==
    [][\A p \in Procs :
          (h[p].pc = "match" /\ h'[p].pc # "match")
          => (h'[p].pc = "fetch" \/ HasResponse(h'[p]))
      ]_vars

----------------------------------------------------------------------------

\* what the preflight handler answers to the (Origin, SSR flag) of a request
PreflightFor(req) == handleOptions(Context(req))

\* what the stamping of actual responses sets for the (Origin, SSR flag) of a
\* request, on a response that has no headers of its own
StampFor(req) ==
    addCorsHeaders(NoResponse, Context(req).origin, Context(req).isSSRRequest)

SetsVaryOrigin(response) == response.vary = "Origin"

(* C34 as stated: the preflight handler and the stamping of actual          *)
(* responses decide alike for every pair of Origin (or none) and SSR flag:  *)
(* the response to an OPTIONS request and the response to any other request *)
(* with the same pair have the same Access-Control-Allow-Origin value, and  *)
(* Vary: Origin is on both or on neither.                                   *)

C34_PreflightAndStampingAgree ==
    \A p \in Procs :
        /\ (Done(p) /\ IsOptions(h[p].req))
           => ( /\ h[p].response.allowOrigin = StampFor(h[p].req).allowOrigin
                /\ SetsVaryOrigin(h[p].response) <=> SetsVaryOrigin(StampFor(h[p].req)) )
        /\ (Done(p) /\ ~IsOptions(h[p].req))
           => ( /\ h[p].response.allowOrigin = PreflightFor(h[p].req).allowOrigin
                /\ SetsVaryOrigin(h[p].response)
                       <=> SetsVaryOrigin(PreflightFor(h[p].req)) )

\* the two functions on a response with no headers of its own: for the pair
\* of every request seen they set the same allow-origin and the same Vary
PreflightAndStampingSetAlike ==
    \A p \in Procs :
        Active(p)
        => ( /\ PreflightFor(h[p].req).allowOrigin = StampFor(h[p].req).allowOrigin
             /\ PreflightFor(h[p].req).vary = StampFor(h[p].req).vary )

----------------------------------------------------------------------------

\* the allow-origin decided from a request's own Origin and SSR header
OwnAllowOrigin(req) ==
    IF SsrFlagged(req) \/ ~AllowedOrigin(req.origin)
    THEN << OriginOf("https", <<LabelWww, LabelAvocadostore, LabelDe>>, Undefined) >>
    ELSE <<req.origin>>

\* the response carries nothing of an origin decision
OriginAgnostic(response) ==
    /\ response.allowOrigin = <<>>
    /\ response.vary # "Origin"
    /\ response.allowMethods = NoHeader

(* C35: no origin decision is written into the cache, neither into an entry *)
(* nor into a scheduled put, and the Access-Control-Allow-Origin of a       *)
(* response served from the cache is the one decided from the Origin and    *)
(* the SSR flag of the request being answered, not from those of the        *)
(* request that stored the entry.                                           *)

C35_HitOriginDecidedByCurrentRequest ==
    /\ \A w \in Written : OriginAgnostic(w.response)
    /\ \A p \in Procs :
           (Done(p) /\ h[p].isCacheHit)
           => h[p].response.allowOrigin = OwnAllowOrigin(h[p].req)

\* one invocation stored the entry for shop.avocadostore.de, the other is
\* answered from it for www.avocadostore.dev
C35_Witness ==
    \E p, q \in Procs :
        /\ Done(q)
        /\ h[q].putCalls # <<>>
        /\ h[q].req.origin = OriginOf("https", <<LabelShop, LabelAvocadostore, LabelDe>>, Undefined)
        /\ h[q].response.allowOrigin = <<h[q].req.origin>>
        /\ Done(p)
        /\ h[p].isCacheHit
        /\ h[p].cacheKeyUrl = h[q].cacheKeyUrl
        /\ h[p].req.origin = OriginOf("https", <<LabelWww, LabelAvocadostore, LabelDev>>, Undefined)
        /\ h[p].response.allowOrigin = <<h[p].req.origin>>

----------------------------------------------------------------------------

\* the invocation looked its key up and found nothing
Missed(p) ==
    /\ h[p].matchCalls # <<>>
    /\ ~h[p].isCacheHit
    /\ h[p].pc \in {"fetch", "errorBody", "done"}

(* C39: two invocations running at the same time with the same key that     *)
(* both miss are not coalesced: each makes its own upstream calls and each  *)
(* schedules its own put under that key; each put, when it completes,      *)
(* replaces whatever the key held and touches no other key, so the entry    *)
(* left is that of the put completing last.                                 *)

C39_ConcurrentMissesNotCoalesced ==
    [][ /\ \A p, q \in Procs :
               ( /\ p # q
                 /\ Missed(p) /\ Missed(q)
                 /\ h[p].cacheKeyUrl = h[q].cacheKeyUrl
                 /\ Done(p) /\ Done(q) )
               => ( /\ h[p].fetchCalls # <<>> /\ h[q].fetchCalls # <<>>
                    /\ h[p].putCalls = <<h[p].cacheKeyUrl>>
                    /\ h[q].putCalls = <<h[q].cacheKeyUrl>> )
        /\ \A t \in tasks :
               (tasks' = tasks \ {t})
               => /\ t.key \in DOMAIN cache'
                  /\ cache'[t.key].response = t.response
                  /\ \A k \in DOMAIN cache : k # t.key => cache'[k] = cache[k]
      ]_vars

\* both invocations missed and got different answers; both puts completed and
\* the entry is the answer of the first invocation, whose put came last
C39_Witness ==
    /\ tasks = {}
    /\ \A p \in Procs : Done(p) /\ Missed(p) /\ h[p].putCalls # <<>>
    /\ h["p1"].cacheKeyUrl = h["p2"].cacheKeyUrl
    /\ h["p1"].id = 1
    /\ h["p1"].response.body.text = "hits-1"
    /\ h["p2"].response.body.text = "hits-2"
    /\ h["p1"].cacheKeyUrl \in DOMAIN cache
    /\ cache[h["p1"].cacheKeyUrl].response.body.text = "hits-1"

----------------------------------------------------------------------------

\* same URL, same token, same SSR flag; the payloads may differ
SameCacheIdentity(r1, r2) ==
    /\ SameUrl(r1, r2)
    /\ TokenCarried(r1) = TokenCarried(r2)
    /\ SsrFlagged(r1) = SsrFlagged(r2)

(* C40: the key does not depend on the payload: two eligible POSTs with the *)
(* same URL, token and SSR flag have the same key whatever their (valid)    *)
(* payloads are, so that the one looking its key up after the other stored  *)
(* under it is answered with the response stored under the other's key,     *)
(* without an upstream call.                                                *)

C40_KeyIgnoresPayload ==
    [][\A p, q \in Procs :
          ( /\ p # q
            /\ BodyRead(p) /\ BodyRead(q)
            /\ EligibleRequest(h[p].req) /\ EligibleRequest(h[q].req)
            /\ SameCacheIdentity(h[p].req, h[q].req) )
          => ( /\ h[p].cacheKeyUrl = h[q].cacheKeyUrl
               /\ ( /\ h[p].pc = "match" /\ h'[p].pc # "match"
                    /\ Done(q) /\ h[q].putCalls # <<>>
                    /\ h[q].cacheKeyUrl \in DOMAIN cache )
                  => ( /\ h'[p].pc = "done"
                       /\ h'[p].isCacheHit
                       /\ h'[p].fetchCalls = <<>>
                       /\ h'[p].putCalls = <<>>
                       /\ h'[p].response.status =
                              cache[h[q].cacheKeyUrl].response.status
                       /\ h'[p].response.body =
                              cache[h[q].cacheKeyUrl].response.body ) )
      ]_vars

\* the entry stored for the payload "schok" answers the payload "shoes"
C40_Witness ==
    \E p, q \in Procs :
        /\ Done(q)
        /\ h[q].putCalls # <<>>
        /\ QueryOf(h[q].req.body.requests[1]) = <<115, 99, 104, 111, 107>>
        /\ Done(p)
        /\ h[p].isCacheHit
        /\ h[p].fetchCalls = <<>>
        /\ QueryOf(h[p].req.body.requests[1]) = <<115, 104, 111, 101, 115>>
        /\ SameCacheIdentity(h[p].req, h[q].req)
        /\ h[p].response.body = h[q].response.body

----------------------------------------------------------------------------

(* C36: validation decides by the query fields alone and changes nothing:   *)
(* a POST is rejected exactly when its body is not a JSON text with a list  *)
(* (or nothing) under `requests` or its queries call for it, and for an     *)
(* accepted POST every upstream call, to whichever host, is a POST whose    *)
(* payload is the decoded body written out again: the items of the request  *)
(* in their order, each with the same names and values.                     *)

C36_PayloadForwardedUnchanged ==
    \A p \in Procs :
        (BodyRead(p) /\ IsPost(h[p].req))
        => ( /\ (h[p].response.status = 400) <=> Rejectable(h[p].req.body)
             /\ \A i \in 1..Len(h[p].fetchCalls) :
                    /\ h[p].fetchCalls[i].method = "POST"
                    /\ SamePayload(h[p].fetchCalls[i].body, h[p].req.body)
                    /\ h[p].fetchCalls[i].body = h[p].fetchCalls[1].body )

\* a batch of an item that writes `query` twice, "ab" and then "schok", and
\* an item with an empty query, another index and a third field, sent to all
\* four hosts: the text sent has `query` once in the first item, with the
\* value the text of the request gave last
C36_Witness ==
    \E p \in Procs :
        /\ Len(h[p].fetchCalls) = 4
        /\ Len(h[p].req.body.requests) = 2
        /\ h[p].req.body.requests[1] =
               << <<"query", <<97, 98>>>>, <<"indexName", <<116, 101, 115, 116>>>>,
                  <<"query", <<115, 99, 104, 111, 107>>>> >>
        /\ Names(h[p].req.body.requests[2]) = {"indexName", "query", "hitsPerPage"}
        /\ \A i \in 1..4 :
               /\ h[p].fetchCalls[i].body.requests[1] =
                      << <<"query", <<115, 99, 104, 111, 107>>>>,
                         <<"indexName", <<116, 101, 115, 116>>>> >>
               /\ h[p].fetchCalls[i].body.requests[2] = h[p].req.body.requests[2]

----------------------------------------------------------------------------

\* the key a put of the invocation with the given id may write: the key that
\* invocation synthesized from its own request
OwnKey(by) ==
    [pathname |-> by.pathname,
     params   |-> ParamSet(ParamSet(by.params, "cacheKey", TokenCarried(by)),
                           "ssr", IF SsrFlagged(by) THEN "1" ELSE "0")]

\* the request in slot p is one that stores nothing: ineligible, answered
\* from the cache, rejected, or failed at the upstream
StoresNothing(p) ==
    \/ ~EligibleRequest(h[p].req)
    \/ h[p].isCacheHit
    \/ h[p].response.status = 400
    \/ Done(p) /\ ~Success(h[p].response.status)

(* C37: handling a request never deletes a cache entry and writes at most   *)
(* one key, the request's own synthesized key: no step removes a key, a     *)
(* step changes at most the one key of the put it completes, an invocation  *)
(* schedules at most one put, under its own key, and none at all when it is *)
(* ineligible, hits the cache, is rejected or fails at the upstream; the    *)
(* steps of the handler itself leave every entry as it is.                  *)

C37_OnlyOwnKeyWritten ==
    [][ /\ DOMAIN cache \subseteq DOMAIN cache'
        /\ \A k1, k2 \in DOMAIN cache :
               (cache'[k1] # cache[k1] /\ cache'[k2] # cache[k2]) => k1 = k2
        /\ Cardinality((DOMAIN cache') \ (DOMAIN cache)) <= 1
        /\ cache' # cache
           => \E t \in tasks :
                  /\ tasks' = tasks \ {t}
                  /\ h' = h
                  /\ t.key = OwnKey(t.by)
                  /\ \A k \in DOMAIN cache' : k # t.key => k \in DOMAIN cache /\ cache'[k] = cache[k]
        /\ \A t \in tasks' : t.key = OwnKey(t.by)
        /\ \A p \in Procs :
               /\ Len(h'[p].putCalls) <= 1
               /\ Cardinality({t \in tasks' : t.id = h'[p].id}) <= 1
               /\ h'[p].putCalls # <<>> => h'[p].putCalls[1] = OwnKey(NoteOf(h'[p].req))
               /\ (Active(p) /\ StoresNothing(p)) => NoPutFor(p)
      ]_vars

\* the cache holds an entry under another key; an eligible request was
\* answered 502 and left it as it was, writing nothing
C37_Witness ==
    \E p \in Procs :
        /\ Done(p)
        /\ EligibleRequest(h[p].req)
        /\ h[p].response.status = 502
        /\ NoPutFor(p)
        /\ Cardinality(DOMAIN cache) = 1
        /\ h[p].cacheKeyUrl \notin DOMAIN cache

----------------------------------------------------------------------------

(* C38: provided every upstream and cache call returns or throws in the     *)
(* end, every request that arrived is in the end answered with a response,  *)
(* whatever mix of successes, non-success statuses and thrown errors the    *)
(* calls end with.                                                          *)

C38_EveryRequestAnswered ==
    \A p \in Procs : Active(p) ~> Done(p)

====
